---- MODULE Spec2Model ----
(***************************************************************************)
(* Model of pai-consolidator: the column resolver, the header structure    *)
(* analyser, the per-file record transformer (PaiProcessor.procesar_archivo)*)
(* and the merger (PaiProcessor.consolidar_archivos).                      *)
(*                                                                         *)
(* Text is a sequence of one-character tokens, so that lower(), strip()    *)
(* and the substring tests of the source are computed, not assumed.  The   *)
(* letters with a diacritic are the tokens "n~", "a^", "e^", ...           *)
(* A cell value is a record [k, s, n, d]: k = "nan" (empty cell, None,     *)
(* NaN), "str" (text s), "num" (the number n/d: d = 1 for an int, d = 10   *)
(* for a float with one decimal), "bool" (n = 1 for True), "obj" (any      *)
(* other object).                                                          *)
(* A column label is a record [tuple, l0, l1]: a flat label has            *)
(* tuple = FALSE and its text in l0; a label of a two-row header has       *)
(* tuple = TRUE and one text per header level.                             *)
(***************************************************************************)
EXTENDS Naturals, Integers, Sequences, FiniteSets, TLC

VARIABLES
    vacuna,               \* PaiProcessor.vacuna
    tipo_consolidado,     \* PaiProcessor.tipo_consolidado
    archivos_procesados,  \* PaiProcessor.archivos_procesados
    registros_totales,    \* PaiProcessor.registros_totales
    advertencias,         \* PaiProcessor.advertencias
    directorio,           \* the files of the directory the processor works on
    pc,                   \* position inside consolidar_archivos
    archivos,             \* the files the current run discovered
    dfs,                  \* consolidar_archivos: the non-empty per-file tables
    traza,                \* one record per procesar_archivo call of the run
    resultado,            \* the dictionary consolidar_archivos returned
    llamada,              \* a direct call of a utility function: [fn, arg, res]
    con_restos            \* the run began on counters or warnings an earlier run left

vars == << vacuna, tipo_consolidado, archivos_procesados, registros_totales,
           advertencias, directorio, pc, archivos, dfs, traza, resultado, llamada,
           con_restos >>

\* a value under a name: F applied to it, the value worked out first
Con(valor, F(_)) == IF valor = valor THEN F(valor) ELSE F(valor)
\* a sequence given as a function, as the tuple of its elements
Lista(f) == f \o << >>

\* ------------------------------------------------------------------ text

Mayusculas ==
    <<"A","B","C","D","E","F","G","H","I","J","K","L","M","N","O","P","Q",
      "R","S","T","U","V","W","X","Y","Z","N~","A^","E^","I^","O^","U^">>
Minusculas ==
    <<"a","b","c","d","e","f","g","h","i","j","k","l","m","n","o","p","q",
      "r","s","t","u","v","w","x","y","z","n~","a^","e^","i^","o^","u^">>
Digitos == <<"0","1","2","3","4","5","6","7","8","9">>
Espacios == {" ", "\t", "\n"}

IndiceEn(c, tabla) == CHOOSE i \in DOMAIN tabla : tabla[i] = c
EstaEn(c, tabla) == \E i \in DOMAIN tabla : tabla[i] = c

\* str.lower() and str.upper(), character by character
lower_c(c) == IF EstaEn(c, Mayusculas) THEN Minusculas[IndiceEn(c, Mayusculas)] ELSE c
upper_c(c) == IF EstaEn(c, Minusculas) THEN Mayusculas[IndiceEn(c, Minusculas)] ELSE c
lower(s) == Con(s, LAMBDA x : IF x = << >> THEN << >> ELSE Lista([i \in 1..Len(x) |-> lower_c(x[i])]))
upper(s) == Con(s, LAMBDA x : IF x = << >> THEN << >> ELSE Lista([i \in 1..Len(x) |-> upper_c(x[i])]))

RECURSIVE lstrip(_)
lstrip(s) == IF s # << >> /\ Head(s) \in Espacios THEN lstrip(Tail(s)) ELSE s
RECURSIVE rstrip(_)
rstrip(s) ==
    IF s # << >> /\ s[Len(s)] \in Espacios THEN rstrip(SubSeq(s, 1, Len(s) - 1)) ELSE s
\* str.strip()
strip(s) == rstrip(lstrip(s))

\* the Python test `t in s` on two texts
Contiene(s, t) ==
    Con(s, LAMBDA x :
        \/ t = << >>
        \/ \E i \in 1..(Len(x) - Len(t) + 1) : SubSeq(x, i, i + Len(t) - 1) = t)
\* any(term in s for term in terms)
ContieneAlguno(s, terms) == \E k \in DOMAIN terms : Contiene(s, terms[k])

\* str(n) of a natural number
RECURSIVE str_nat(_)
str_nat(n) == IF n < 10 THEN <<Digitos[n + 1]>> ELSE str_nat(n \div 10) \o <<Digitos[(n % 10) + 1]>>

\* re.sub(r'\s+', ' ', texto): every run of white space becomes one blank
RECURSIVE colapsar_espacios(_)
colapsar_espacios(s) ==
    IF s = << >> THEN << >>
    ELSE IF Head(s) \in Espacios
         THEN <<" ">> \o colapsar_espacios(lstrip(s))
         ELSE <<Head(s)>> \o colapsar_espacios(Tail(s))

\* --------------------------------------------------------------- values

NaN == [k |-> "nan", s |-> << >>, n |-> 0, d |-> 1]
Str(s) == [k |-> "str", s |-> s, n |-> 0, d |-> 1]
Num(n) == [k |-> "num", s |-> << >>, n |-> n, d |-> 1]
Float(n, d) == [k |-> "num", s |-> << >>, n |-> n, d |-> d]
Bool(b) == [k |-> "bool", s |-> << >>, n |-> IF b THEN 1 ELSE 0, d |-> 1]
Obj == [k |-> "obj", s |-> << >>, n |-> 0, d |-> 1]
\* pd.notna / pd.isna of a scalar
notna(v) == v.k # "nan"
\* str() of an int (d = 1) or of a float with one decimal (d = 10)
str_num(n, d) ==
    LET a == IF n < 0 THEN 0 - n ELSE n
        signo == IF n < 0 THEN <<"-">> ELSE << >>
    IN  IF d = 1 THEN signo \o str_nat(a)
        ELSE signo \o str_nat(a \div d) \o <<".">> \o str_nat(a % d)
\* str(v), as astype(str) and str() give it for the values of a sheet
str_valor(v) ==
    CASE v.k = "str" -> v.s
      [] v.k = "num" -> str_num(v.n, v.d)
      [] v.k = "bool" -> IF v.n = 1 THEN <<"T","r","u","e">> ELSE <<"F","a","l","s","e">>
      [] v.k = "obj" -> <<"{","}">>
      [] OTHER -> <<"n","a","n">>

\* limpiar_texto
limpiar_texto(v) ==
    IF v.k # "str" THEN str_valor(v) ELSE upper(strip(colapsar_espacios(v.s)))

Plana(s) == [tuple |-> FALSE, l0 |-> s, l1 |-> << >>]
Tupla(a, b) == [tuple |-> TRUE, l0 |-> a, l1 |-> b]
\* str(col) of a flat label
str_col(col) == col.l0

\* ---- vocabulary of utils.py (lines 286-298, 343, 385, 395) ----
terminos_excluidos ==
    << <<"f","a","l","l","e","c","i","d","o">>,
       <<"m","u","e","r","t","o">>,
       <<"o","b","s","e","r","v","a","c","i","o","n">>,
       <<"c","o","m","e","n","t","a","r","i","o">>,
       <<"n","o","t","a">> >>
variantes_fiebre_amarilla ==
    << <<"f","a">>,
       <<"f",".","a",".">>,
       <<"f","."," ","a","m","a","r","i","l","l","a">>,
       <<"f","i","e","b",".","a","m","a","r">>,
       <<"f"," ","a","m","a","r","i","l","l","a">>,
       <<"a","m","a","r","i","l","l","a">>,
       <<"a","n","t","i","a","m","a","r","i^","l","i","c","a">>,
       <<"a","n","t","i","a","m","a","r","i","l","i","c","a">> >>
terminos_vacunacion ==
    << <<"d","o","s","i","s">>,
       <<"l","o","t","e">>,
       <<"j","e","r","i","n","g","a">>,
       <<"f","e","c","h","a"," ","a","p","l","i","c","a","c","i","o","n">>,
       <<"a","p","l","i","c","a","d","a">>,
       <<"b","i","o","l","o","g","i","c","o">>,
       <<"v","a","c","u","n","a">>,
       <<"i","n","m","u","n","i","z","a","c","i","o","n">>,
       <<"i","n","m","u","n","i","z","a","c","i","o^","n">> >>
terminos_valores ==
    << <<"d","o","s","i","s">>,
       <<"p","r","i","m","e","r","a">>,
       <<"s","e","g","u","n","d","a">>,
       <<"r","e","f","u","e","r","z","o">>,
       <<"u","n","i","c","a">> >>
terminos_dosis ==
    << <<"d","o","s","i","s">>,
       <<"t","i","p","o"," ","d","e"," ","d","o","s","i","s">>,
       <<"t","i","p","o"," ","d","o","s","i","s">> >>
terminos_contenido_dosis ==
    << <<"p","r","i","m","e","r","a">>,
       <<"s","e","g","u","n","d","a">>,
       <<"r","e","f","u","e","r","z","o">>,
       <<"u","n","i","c","a">> >>
columnas_base_needed ==
    << <<"C","o","n","s","e","c","u","t","i","v","o">>,
       <<"F","e","c","h","a">>,
       <<"T","i","p","o"," ","d","e"," ","i","d","e","n","t","i","f","i","c","a","c","i","o^","n">>,
       <<"N","u^","m","e","r","o"," ","d","e"," ","i","d","e","n","t","i","f","i","c","a","c","i","o^","n">>,
       <<"P","r","i","m","e","r"," ","n","o","m","b","r","e">>,
       <<"P","r","i","m","e","r"," ","a","p","e","l","l","i","d","o">>,
       <<"A","N~","O","S">>,
       <<"M","E","S","E","S">>,
       <<"D","I","A","S">>,
       <<"S","e","x","o">>,
       <<"D","e","p","a","r","t","a","m","e","n","t","o"," ","d","e"," ","r","e","s","i","d","e","n","c","i","a">>,
       <<"M","u","n","i","c","i","p","i","o"," ","d","e"," ","r","e","s","i","d","e","n","c","i","a">>,
       <<"C","o","m","u","n","a","/","L","o","c","a","l","i","d","a","d">>,
       <<"A^","r","e","a">>,
       <<"D","i","r","e","c","c","i","o^","n">> >>
s_fiebre_amarilla == <<"f","i","e","b","r","e"," ","a","m","a","r","i","l","l","a">>
s_dosis == <<"d","o","s","i","s">>
s_fin == <<"f","i","n">>
s_Unnamed == <<"U","n","n","a","m","e","d",":"," ">>
s_level_0 == <<"_","l","e","v","e","l","_","0">>
s_level_1 == <<"_","l","e","v","e","l","_","1">>
s_PRIMERA == <<"P","R","I","M","E","R","A">>
s_SEGUNDA == <<"S","E","G","U","N","D","A">>
s_REFUERZO == <<"R","E","F","U","E","R","Z","O">>
s_UNICA == <<"U","N","I","C","A">>
s_Vacunado == <<"V","a","c","u","n","a","d","o">>
s_Tipo_Dosis == <<"T","i","p","o","_","D","o","s","i","s">>
s_Es_Primera_Dosis == <<"E","s","_","P","r","i","m","e","r","a","_","D","o","s","i","s">>
s_Es_Segunda_Dosis == <<"E","s","_","S","e","g","u","n","d","a","_","D","o","s","i","s">>
s_Es_Refuerzo == <<"E","s","_","R","e","f","u","e","r","z","o">>
s_Es_Unica_Dosis == <<"E","s","_","U","n","i","c","a","_","D","o","s","i","s">>
s_fecha == <<"f","e","c","h","a">>
s_Registro_Diario == <<"R","e","g","i","s","t","r","o"," ","D","i","a","r","i","o">>
s_regist == <<"r","e","g","i","s","t">>
s_registro == <<"r","e","g","i","s","t","r","o">>
s_diario == <<"d","i","a","r","i","o">>
g_menor_1 == <<"<","1"," ","a","n~","o">>
g_1_5 == <<"1","-","5"," ","a","n~","o","s">>
g_6_10 == <<"6","-","1","0"," ","a","n~","o","s">>
g_11_18 == <<"1","1","-","1","8"," ","a","n~","o","s">>
g_19_60 == <<"1","9","-","6","0"," ","a","n~","o","s">>
g_mayor_60 == <<">","6","0"," ","a","n~","o","s">>
g_no_especificado == <<"N","o"," ","e","s","p","e","c","i","f","i","c","a","d","o">>
v_Fiebre_amarilla == <<"F","i","e","b","r","e"," ","a","m","a","r","i","l","l","a">>
v_Polio == <<"P","o","l","i","o">>

\* ------------------------------------------------ clasificar_grupo_etario

\* ''.join(c for c in edad_anios if c.isdigit() or c == '.')
RECURSIVE solo_numeros(_)
solo_numeros(s) ==
    IF s = << >> THEN << >>
    ELSE IF EstaEn(Head(s), Digitos) \/ Head(s) = "."
         THEN <<Head(s)>> \o solo_numeros(Tail(s))
         ELSE solo_numeros(Tail(s))

RECURSIVE contar(_, _)
contar(s, c) == IF s = << >> THEN 0 ELSE (IF Head(s) = c THEN 1 ELSE 0) + contar(Tail(s), c)

RECURSIVE valor_digitos(_)
valor_digitos(s) ==
    IF s = << >> THEN 0
    ELSE IF s[Len(s)] = "." THEN valor_digitos(SubSeq(s, 1, Len(s) - 1))
    ELSE 10 * valor_digitos(SubSeq(s, 1, Len(s) - 1)) + (IndiceEn(s[Len(s)], Digitos) - 1)

RECURSIVE potencia10(_)
potencia10(k) == IF k = 0 THEN 1 ELSE 10 * potencia10(k - 1)

\* float(numeros) of a text made of digits and dots: ok = FALSE is ValueError
float_texto(numeros) ==
    LET puntos == contar(numeros, ".")
        pos == IF puntos = 1 THEN IndiceEn(".", numeros) ELSE Len(numeros)
    IN  IF puntos > 1 \/ Len(numeros) = puntos
        THEN [ok |-> FALSE, n |-> 0, d |-> 1]
        ELSE [ok |-> TRUE, n |-> valor_digitos(numeros), d |-> potencia10(Len(numeros) - pos)]

\* variant: the chain with exclusive upper bounds
grupo_exclusivo(n, d) ==
    IF n < d THEN g_menor_1
    ELSE IF n < 5 * d THEN g_1_5
    ELSE IF n < 10 * d THEN g_6_10
    ELSE IF n < 18 * d THEN g_11_18
    ELSE IF n < 60 * d THEN g_19_60
    ELSE g_mayor_60

\* the if/elif chain over the number n/d (d > 0)
grupo_de_numero(n, d) ==
    IF n < d THEN g_menor_1
    ELSE IF n <= 5 * d THEN g_1_5
    ELSE IF n <= 10 * d THEN g_6_10
    ELSE IF n <= 18 * d THEN g_11_18
    ELSE IF n <= 60 * d THEN g_19_60
    ELSE g_mayor_60

clasificar_grupo_etario(edad_anios) ==
    IF edad_anios.k = "nan" THEN g_no_especificado
    ELSE IF edad_anios.k = "str"
         THEN LET numeros == solo_numeros(edad_anios.s)
                  f == float_texto(numeros)
              IN  IF numeros = << >> \/ ~f.ok THEN g_no_especificado
                  ELSE grupo_de_numero(f.n, f.d)
    ELSE IF edad_anios.k \notin {"num", "bool"} THEN g_no_especificado
    ELSE grupo_de_numero(edad_anios.n, edad_anios.d)

\* ----------------------------------------------------------- DataFrame
\* A table is [cols, rows]: the column labels in order and, per row, one
\* value per column.

NRows(df) == Len(df.rows)
NCols(df) == Len(df.cols)
DataFrameVacio == [cols |-> << >>, rows |-> << >>]
\* df.empty
empty(df) == NCols(df) = 0 \/ NRows(df) = 0
\* position of a label in df.columns (0 when absent)
PosCol(df, col) ==
    IF \E j \in 1..NCols(df) : df.cols[j] = col
    THEN CHOOSE j \in 1..NCols(df) : df.cols[j] = col /\ \A h \in 1..(j - 1) : df.cols[h] # col
    ELSE 0
\* df[col] as the sequence of the column's values
Columna(df, col) == [r \in 1..NRows(df) |-> df.rows[r][PosCol(df, col)]]
EnSeq(x, s) == \E i \in 1..Len(s) : s[i] = x

RECURSIVE filtrar_idx(_, _, _)
\* the members i of lo..hi with P[i], as an ascending sequence
filtrar_idx(lo, hi, P) ==
    IF lo > hi THEN << >>
    ELSE (IF P[lo] THEN <<lo>> ELSE << >>) \o filtrar_idx(lo + 1, hi, P)

\* Series.dropna().astype(str).unique(): first occurrences, in order
RECURSIVE unique(_)
unique(s) ==
    IF s = << >> THEN << >>
    ELSE LET r == unique(SubSeq(s, 1, Len(s) - 1))
         IN  IF EnSeq(s[Len(s)], r) THEN r ELSE Append(r, s[Len(s)])
valores_texto(df, col) ==
    LET c == Columna(df, col)
        idx == filtrar_idx(1, NRows(df), [r \in 1..NRows(df) |-> notna(c[r])])
    IN  unique([i \in 1..Len(idx) |-> str_valor(c[idx[i]])])

\* --------------------------------------------- encontrar_columnas_vacuna

VentanaAdyacente == 3
VentanaContenido == 5
MaxValoresUnicos == 50
MuestraValores == 30

Max(a, b) == IF a > b THEN a ELSE b
Min(a, b) == IF a < b THEN a ELSE b

buscar_terminos(vac) ==
    LET vacuna_lower == strip(lower(vac))
    IN  <<vacuna_lower>> \o
        (IF vacuna_lower = s_fiebre_amarilla THEN variantes_fiebre_amarilla ELSE << >>)

\* Estrategia 1: the label names the vaccine and holds no excluded term
coincidencias_directas(df, vac) ==
    LET ok == [j \in 1..NCols(df) |->
                 LET col_lower == strip(lower(str_col(df.cols[j])))
                 IN  /\ ContieneAlguno(col_lower, buscar_terminos(vac))
                     /\ ~ContieneAlguno(col_lower, terminos_excluidos)]
        idx == filtrar_idx(1, NCols(df), ok)
    IN  [i \in 1..Len(idx) |-> df.cols[idx[i]]]

RECURSIVE adyacentes_desde(_, _, _)
\* Estrategia 2: the administration columns within 3 places of a column that
\* names the vaccine, once per such column
adyacentes_desde(df, vac, i) ==
    IF i > NCols(df) THEN << >>
    ELSE LET col_lower == strip(lower(str_col(df.cols[i])))
             cerca == [j \in 1..NCols(df) |->
                         /\ j # i
                         /\ ContieneAlguno(strip(lower(str_col(df.cols[j]))),
                                           terminos_vacunacion)]
             idx == filtrar_idx(Max(1, i - VentanaAdyacente),
                                Min(NCols(df), i + VentanaAdyacente), cerca)
         IN  (IF ContieneAlguno(col_lower, buscar_terminos(vac))
              THEN [h \in 1..Len(idx) |-> df.cols[idx[h]]]
              ELSE << >>) \o adyacentes_desde(df, vac, i + 1)

\* Estrategia 3, one column: its values speak of doses and a label within 5
\* places names the vaccine
por_contenido(df, vac, j) ==
    LET valores == [i \in 1..Len(valores_texto(df, df.cols[j])) |->
                       lower(valores_texto(df, df.cols[j])[i])]
    IN  /\ Len(valores) < MaxValoresUnicos
        /\ \E i \in 1..Len(valores) : ContieneAlguno(valores[i], terminos_valores)
        /\ \E h \in Max(1, j - VentanaContenido)..Min(NCols(df), j + VentanaContenido) :
              ContieneAlguno(lower(str_col(df.cols[h])), buscar_terminos(vac))

RECURSIVE agregar_por_contenido(_, _, _, _)
agregar_por_contenido(df, vac, j, res) ==
    IF j > NCols(df) THEN res
    ELSE agregar_por_contenido(df, vac, j + 1,
            IF por_contenido(df, vac, j) /\ ~EnSeq(df.cols[j], res)
            THEN Append(res, df.cols[j]) ELSE res)

\* `resultado` before the final filter (Estrategias 1 to 3)
candidatas_vacuna(df, vac) ==
    LET directas == coincidencias_directas(df, vac)
    IN  IF directas # << >> THEN directas
        ELSE agregar_por_contenido(df, vac, 1, adyacentes_desde(df, vac, 1))

tiene_dosis(col) == Contiene(lower(str_col(col)), s_dosis)

\* variant: Estrategia 4 left out
sin_prioridad(res) == res

\* Estrategia 4: the candidates that mention 'dosis', when there are any
priorizar_dosis(res) ==
    LET idx == filtrar_idx(1, Len(res), [i \in 1..Len(res) |-> tiene_dosis(res[i])])
        dosis_cols == [i \in 1..Len(idx) |-> res[idx[i]]]
    IN  IF Len(res) > 0 /\ dosis_cols # << >> THEN dosis_cols ELSE res

encontrar_columnas_vacuna(df, vac) == priorizar_dosis(candidatas_vacuna(df, vac))

\* --------------------------------------------- identificar_columna_dosis
\* The result is [ok, col]: ok = FALSE stands for None.

Ninguna == [ok |-> FALSE, col |-> Plana(<< >>)]
Alguna(col) == [ok |-> TRUE, col |-> col]

\* variant: no dose column is ever identified
sin_columna_dosis(df, columnas_vacuna) == Ninguna

\* variant: the values of the columns are not looked at
sin_contenido_de_dosis(df, col) == FALSE

\* lines 393-397: one of the first values of the column, taken without null
\* values and without repetitions, names a kind of dose
contenido_de_dosis(df, col) ==
    LET valores == valores_texto(df, col)
    IN  \E i \in 1..Min(Len(valores), MuestraValores) :
            ContieneAlguno(lower(valores[i]), terminos_contenido_dosis)

identificar_columna_dosis(df, columnas_vacuna) ==
    LET n == Len(columnas_vacuna)
        por_nombre == [i \in 1..n |->
                          ContieneAlguno(lower(str_col(columnas_vacuna[i])), terminos_dosis)]
        por_valor == [i \in 1..n |-> contenido_de_dosis(df, columnas_vacuna[i])]
    IN  IF \E i \in 1..n : por_nombre[i]
        THEN Alguna(columnas_vacuna[CHOOSE i \in 1..n :
                        por_nombre[i] /\ \A h \in 1..(i - 1) : ~por_nombre[h]])
        ELSE IF \E i \in 1..n : por_valor[i]
        THEN Alguna(columnas_vacuna[CHOOSE i \in 1..n :
                        por_valor[i] /\ \A h \in 1..(i - 1) : ~por_valor[h]])
        ELSE Ninguna

\* ------------------------------------------------- pandas.read_excel
\* A file is [ruta, legible, hojas]; a sheet is [nombre, filas], filas a
\* rectangular grid of cell values.  HeaderNone stands for header=None.

HeaderNone == 0 - 1

es_vacia(fila) == \A j \in 1..Len(fila) : ~notna(fila[j])
\* width of a row once its trailing empty cells are dropped
ancho_fila(fila) ==
    IF es_vacia(fila) THEN 0
    ELSE CHOOSE j \in 1..Len(fila) : notna(fila[j]) /\ \A h \in (j + 1)..Len(fila) : ~notna(fila[h])
RECURSIVE quitar_filas_vacias_finales(_)
quitar_filas_vacias_finales(filas) ==
    IF filas # << >> /\ es_vacia(filas[Len(filas)])
    THEN quitar_filas_vacias_finales(SubSeq(filas, 1, Len(filas) - 1))
    ELSE filas
RECURSIVE ancho_maximo(_)
ancho_maximo(filas) ==
    IF filas = << >> THEN 0 ELSE Max(ancho_fila(Head(filas)), ancho_maximo(Tail(filas)))

\* the grid the reader hands to the parser: the first nrows rows (all of them
\* when nrows < 0), without trailing empty rows, as wide as the widest row read
datos_hoja(filas, nrows) ==
    LET leidas == IF nrows < 0 THEN filas ELSE SubSeq(filas, 1, Min(nrows, Len(filas)))
        datos == quitar_filas_vacias_finales(leidas)
        ancho == ancho_maximo(datos)
    IN  [r \in 1..Len(datos) |-> SubSeq(datos[r], 1, ancho)]

\* duplicate labels get the suffix .1, .2, ... (mangle_dupe_cols)
desduplicar(nombres) ==
    [j \in 1..Len(nombres) |->
        LET previas == Cardinality({h \in 1..(j - 1) : nombres[h] = nombres[j]})
        IN  IF previas = 0 THEN nombres[j] ELSE nombres[j] \o <<".">> \o str_nat(previas)]

LecturaFallida == [ok |-> FALSE, df |-> DataFrameVacio]
Leido(df) == [ok |-> TRUE, df |-> df]

\* the index in archivo.hojas of the sheet called nombre (0: no such sheet)
indice_hoja(archivo, nombre) ==
    IF \E i \in 1..Len(archivo.hojas) : archivo.hojas[i].nombre = nombre
    THEN CHOOSE i \in 1..Len(archivo.hojas) : archivo.hojas[i].nombre = nombre
    ELSE 0

\* pd.read_excel(ruta, sheet_name=<the sheet at index hoja>, header=header, nrows=nrows)
\* with header an int or HeaderNone; ok = FALSE when it raises
read_excel(archivo, hoja, header, nrows) ==
    IF ~archivo.legible \/ hoja = 0 \/ hoja > Len(archivo.hojas) THEN LecturaFallida
    ELSE LET datos == datos_hoja(archivo.hojas[hoja].filas,
                                 IF nrows < 0 THEN nrows ELSE nrows + header + 1)
             ancho == IF datos = << >> THEN 0 ELSE Len(datos[1])
         IN  IF datos = << >> THEN Leido(DataFrameVacio)
             ELSE IF header = HeaderNone
             THEN Leido([cols |-> [j \in 1..ancho |-> Plana(str_nat(j - 1))], rows |-> datos])
             ELSE IF header > Len(datos) - 1 THEN LecturaFallida
             ELSE LET fila == datos[header + 1]
                      nombres == [j \in 1..ancho |->
                                    IF notna(fila[j]) THEN str_valor(fila[j])
                                    ELSE s_Unnamed \o str_nat(j - 1)]
                      unicos == desduplicar(nombres)
                  IN  Leido([cols |-> [j \in 1..ancho |-> Plana(unicos[j])],
                             rows |-> SubSeq(datos, header + 2, Len(datos))])

\* fill_mi_header over the level-0 row: an empty cell takes the label to its left
RECURSIVE rellenar_nivel0(_, _)
rellenar_nivel0(fila, j) ==
    IF j > Len(fila) THEN fila
    ELSE rellenar_nivel0(
            IF j > 1 /\ ~notna(fila[j]) THEN [fila EXCEPT ![j] = fila[j - 1]] ELSE fila,
            j + 1)
\* fill_mi_header over the level-1 row: an empty cell takes the label to its
\* left unless a new level-0 label starts at its column
RECURSIVE rellenar_nivel1(_, _, _)
rellenar_nivel1(fila, nivel0, j) ==
    IF j > Len(fila) THEN fila
    ELSE rellenar_nivel1(
            IF j > 1 /\ ~notna(fila[j]) /\ ~notna(nivel0[j])
            THEN [fila EXCEPT ![j] = fila[j - 1]] ELSE fila,
            nivel0, j + 1)

\* pd.read_excel(..., header=[0, 1]): labels are (level 0, level 1) tuples
read_excel_jerarquico(archivo, hoja) ==
    IF ~archivo.legible \/ hoja = 0 \/ hoja > Len(archivo.hojas) THEN LecturaFallida
    ELSE LET datos == datos_hoja(archivo.hojas[hoja].filas, 0 - 1)
             ancho == IF datos = << >> THEN 0 ELSE Len(datos[1])
         IN  IF datos = << >> THEN Leido(DataFrameVacio)
             ELSE IF Len(datos) < 2 THEN LecturaFallida
             ELSE LET n0 == rellenar_nivel0(datos[1], 1)
                      n1 == rellenar_nivel1(datos[2], datos[1], 1)
                      t0 == [j \in 1..ancho |->
                                IF notna(n0[j]) THEN str_valor(n0[j])
                                ELSE s_Unnamed \o str_nat(j - 1) \o s_level_0]
                      t1 == [j \in 1..ancho |->
                                IF notna(n1[j]) THEN str_valor(n1[j])
                                ELSE s_Unnamed \o str_nat(j - 1) \o s_level_1]
                      previas(j) == Cardinality({h \in 1..(j - 1) :
                                                    t0[h] = t0[j] /\ t1[h] = t1[j]})
                  IN  Leido([cols |-> [j \in 1..ancho |->
                                         Tupla(t0[j],
                                               IF previas(j) = 0 THEN t1[j]
                                               ELSE t1[j] \o <<".">> \o str_nat(previas(j)))],
                             rows |-> SubSeq(datos, 3, Len(datos))])

\* ------------------------------------------- analizar_estructura_excel
\* None is -1 for fila_fiebre_amarilla and columna_fiebre_amarilla; column
\* indices are 0-based as in the source.

FilasAnalisis == 3

estructura_inicial ==
    [hojas |-> << >>,
     contiene_fiebre_amarilla |-> FALSE,
     fila_fiebre_amarilla |-> 0 - 1,
     columna_fiebre_amarilla |-> 0 - 1,
     columnas_fiebre_amarilla |-> << >>,
     encabezados_nivel1 |-> << >>,
     encabezados_nivel2 |-> << >>]

nombres_hojas(archivo) == [i \in 1..Len(archivo.hojas) |-> archivo.hojas[i].nombre]

\* the sheet the analyser reads: the first one whose name holds "registro" or
\* "diario", else the first sheet (0: the file has no sheet)
hoja_objetivo(archivo) ==
    LET n == Len(archivo.hojas)
        cand == [i \in 1..n |->
                    \/ Contiene(lower(archivo.hojas[i].nombre), s_registro)
                    \/ Contiene(lower(archivo.hojas[i].nombre), s_diario)]
    IN  IF \E i \in 1..n : cand[i]
        THEN CHOOSE i \in 1..n : cand[i] /\ \A h \in 1..(i - 1) : ~cand[h]
        ELSE IF n > 0 THEN 1 ELSE 0

\* variant: any non-empty cell counts as the vaccine's
no_nula(valor) == notna(valor)

nombra_fiebre_amarilla(valor) ==
    notna(valor) /\ Contiene(lower(str_valor(valor)), s_fiebre_amarilla)

\* the first column of row 0 that names the vaccine (0-based; -1: none)
col_inicio_fa(fila0) ==
    IF \E j \in 1..Len(fila0) : nombra_fiebre_amarilla(fila0[j])
    THEN (CHOOSE j \in 1..Len(fila0) :
             nombra_fiebre_amarilla(fila0[j]) /\
             \A h \in 1..(j - 1) : ~nombra_fiebre_amarilla(fila0[h])) - 1
    ELSE 0 - 1

RECURSIVE col_fin_desde(_, _)
\* the while loop: advance until a row-0 cell is not empty or the row ends
col_fin_desde(fila0, col_fin) ==
    IF col_fin < Len(fila0) /\ ~notna(fila0[col_fin + 1])
    THEN col_fin_desde(fila0, col_fin + 1)
    ELSE col_fin
col_fin_fa(fila0) == col_fin_desde(fila0, col_inicio_fa(fila0) + 1)

\* the sub-columns of the span: its columns whose row-1 cell is not empty
subcolumnas_fa(fila0, fila1) ==
    Con(col_inicio_fa(fila0), LAMBDA inicio :
    Con(col_fin_fa(fila0), LAMBDA fin :
    Con(filtrar_idx(inicio, fin - 1, [j \in inicio..(fin - 1) |-> notna(fila1[j + 1])]),
        LAMBDA idx :
        [i \in 1..Len(idx) |->
            [indice |-> idx[i], subcategoria |-> str_valor(fila1[idx[i] + 1])]])))

analizar_estructura_excel(archivo) ==
    IF ~archivo.legible THEN estructura_inicial
    ELSE Con(read_excel(archivo, hoja_objetivo(archivo), HeaderNone, FilasAnalisis),
         LAMBDA lectura :
         LET e1 == [estructura_inicial EXCEPT !.hojas = nombres_hojas(archivo)]
             enc == lectura.df.rows
         IN  IF hoja_objetivo(archivo) = 0 \/ ~lectura.ok \/ Len(enc) < 1 THEN e1
             ELSE LET e2 == [e1 EXCEPT !.encabezados_nivel1 = enc[1]]
                  IN  IF Len(enc) < 2 THEN e2
                      ELSE LET e3 == [e2 EXCEPT !.encabezados_nivel2 = enc[2]]
                           IN  IF col_inicio_fa(enc[1]) < 0 THEN e3
                               ELSE [e3 EXCEPT
                                       !.contiene_fiebre_amarilla = TRUE,
                                       !.fila_fiebre_amarilla = 0,
                                       !.columna_fiebre_amarilla = col_inicio_fa(enc[1]),
                                       !.columnas_fiebre_amarilla =
                                            subcolumnas_fa(enc[1], enc[2])])

\* ------------------------------------------ PaiProcessor.procesar_archivo

FilasVariacion == 5
MaxBruto == 20

primera_con(seq, P) ==
    Con(Lista(P), LAMBDA p :
        IF \E i \in 1..Len(seq) : p[i]
        THEN Alguna(seq[CHOOSE i \in 1..Len(seq) : p[i] /\ \A h \in 1..(i - 1) : ~p[h]])
        ELSE Ninguna)

\* lines 75-93: the index of the sheet procesar_archivo loads (0: its name is
\* the default "Registro Diario" and the file has no such sheet)
seleccionar_hoja(archivo) ==
    LET n == Len(archivo.hojas)
        cand == [i \in 1..n |->
                    \/ Contiene(lower(archivo.hojas[i].nombre), s_regist)
                    \/ Contiene(lower(archivo.hojas[i].nombre), s_diario)]
    IN  IF ~archivo.legible \/ n = 0 THEN indice_hoja(archivo, s_Registro_Diario)
        ELSE IF indice_hoja(archivo, s_Registro_Diario) # 0
        THEN indice_hoja(archivo, s_Registro_Diario)
        ELSE IF \E i \in 1..n : cand[i]
        THEN CHOOSE i \in 1..n : cand[i] /\ \A h \in 1..(i - 1) : ~cand[h]
        ELSE 1

Carga(ok, df, cv, cd, modo) ==
    [ok |-> ok, df |-> df, columnas_vacuna |-> cv, col_dosis |-> cd, modo_jerarquico |-> modo]

\* lines 120-135: the tuple labels whose first level names the vaccine
columnas_jerarquicas(df) ==
    LET idx == filtrar_idx(1, NCols(df),
                   [j \in 1..NCols(df) |->
                       df.cols[j].tuple /\ Contiene(lower(df.cols[j].l0), s_fiebre_amarilla)])
    IN  [i \in 1..Len(idx) |-> df.cols[idx[i]]]
dosis_jerarquica(columnas_vacuna) ==
    primera_con(columnas_vacuna,
        [i \in 1..Len(columnas_vacuna) |->
            columnas_vacuna[i].tuple /\ Contiene(lower(columnas_vacuna[i].l1), s_dosis)])

carga_plana(r) == Carga(r.ok, r.df, << >>, Ninguna, FALSE)

\* lines 172-205: header rows 0 and 2, then no header, then the first sheet
RECURSIVE carga_alternativa(_, _, _)
carga_alternativa(archivo, hoja, intentos) ==
    Con(read_excel(archivo, hoja, Head(intentos), 0 - 1), LAMBDA r :
        IF r.ok THEN r
        ELSE IF Len(intentos) > 1 THEN carga_alternativa(archivo, hoja, Tail(intentos))
        ELSE read_excel(archivo, 1, HeaderNone, 0 - 1))

\* lines 109-205: load the sheet; ok = FALSE when the load raises out of the
\* strategies (to the handler of line 671)
cargar(archivo, hoja, estructura) ==
    Con(read_excel(archivo, hoja, 1, 0 - 1), LAMBDA trad :
        IF estructura.contiene_fiebre_amarilla /\ estructura.fila_fiebre_amarilla = 0
        THEN Con(read_excel_jerarquico(archivo, hoja), LAMBDA jer :
             Con(columnas_jerarquicas(jer.df), LAMBDA cv :
                 IF jer.ok /\ cv # << >>
                 THEN Carga(TRUE, jer.df, cv, dosis_jerarquica(cv), TRUE)
                 ELSE carga_plana(trad)))
        ELSE IF trad.ok THEN carga_plana(trad)
        ELSE carga_plana(carga_alternativa(archivo, hoja, <<0, 2, HeaderNone>>)))

\* lines 207-237: the columns from the analysed structure, else by label
resolver_columnas(df, estructura, vac) ==
    LET info == estructura.columnas_fiebre_amarilla
        idx == filtrar_idx(1, Len(info), [i \in 1..Len(info) |-> info[i].indice < NCols(df)])
        columnas_candidatas == [i \in 1..Len(idx) |-> df.cols[info[idx[i]].indice + 1]]
        con_dosis == [i \in 1..Len(info) |->
                        /\ Contiene(lower(info[i].subcategoria), s_dosis)
                        /\ info[i].indice < NCols(df)]
        cd == IF \E i \in 1..Len(info) : con_dosis[i]
              THEN Alguna(df.cols[info[CHOOSE i \in 1..Len(info) :
                              con_dosis[i] /\ \A h \in 1..(i - 1) : ~con_dosis[h]].indice + 1])
              ELSE Ninguna
    IN  IF estructura.contiene_fiebre_amarilla /\ info # << >> /\ columnas_candidatas # << >>
        THEN [columnas_vacuna |-> columnas_candidatas, col_dosis |-> cd]
        ELSE [columnas_vacuna |-> encontrar_columnas_vacuna(df, vac), col_dosis |-> Ninguna]

Hallazgo(ok, df, cv) == [ok |-> ok, df |-> df, columnas_vacuna |-> cv]
SinHallazgo == Hallazgo(FALSE, DataFrameVacio, << >>)

\* one attempt: load with header row h and search the labels
intento_header(archivo, hoja, vac, h) ==
    Con(read_excel(archivo, hoja, h, 0 - 1), LAMBDA r :
    Con(IF r.ok THEN encontrar_columnas_vacuna(r.df, vac) ELSE << >>, LAMBDA cols_alt :
        Hallazgo(r.ok /\ cols_alt # << >>, r.df, cols_alt)))

RECURSIVE variaciones_header(_, _, _, _)
\* lines 244-264: header rows 0 to 4 in turn, the first that finds columns
variaciones_header(archivo, hoja, vac, h) ==
    IF h >= FilasVariacion THEN SinHallazgo
    ELSE Con(intento_header(archivo, hoja, vac, h), LAMBDA intento :
             IF intento.ok THEN intento ELSE variaciones_header(archivo, hoja, vac, h + 1))

\* line 283: some cell of row i (0-based) among the first 20 columns is a text
\* that holds the vaccine name
fila_nombra_vacuna(df_raw, vac, i) ==
    \E j \in 1..Min(MaxBruto, NCols(df_raw)) :
        /\ df_raw.rows[i + 1][j].k = "str"
        /\ Contiene(lower(df_raw.rows[i + 1][j].s), lower(vac))

RECURSIVE contenido_bruto_desde(_, _, _, _, _)
\* lines 279-311: rows 0 to 19 of the raw sheet; on a hit the row, then the
\* next one, is tried as header
contenido_bruto_desde(archivo, hoja, vac, df_raw, i) ==
    IF i >= Min(MaxBruto, NRows(df_raw)) THEN SinHallazgo
    ELSE IF ~fila_nombra_vacuna(df_raw, vac, i)
    THEN contenido_bruto_desde(archivo, hoja, vac, df_raw, i + 1)
    ELSE Con(intento_header(archivo, hoja, vac, i), LAMBDA en_fila :
             IF en_fila.ok THEN en_fila
             ELSE Con(intento_header(archivo, hoja, vac, i + 1), LAMBDA en_siguiente :
                  IF en_siguiente.ok THEN en_siguiente
                  ELSE contenido_bruto_desde(archivo, hoja, vac, df_raw, i + 1)))

contenido_bruto(archivo, hoja, vac) ==
    Con(read_excel(archivo, hoja, HeaderNone, 0 - 1), LAMBDA raw :
        IF raw.ok THEN contenido_bruto_desde(archivo, hoja, vac, raw.df, 0) ELSE SinHallazgo)

\* lines 54-322: everything up to the check of line 316
\* error = TRUE: an exception reached the handler of line 671
resolucion(vac, archivo) ==
    Con(seleccionar_hoja(archivo), LAMBDA hoja :
    Con(analizar_estructura_excel(archivo), LAMBDA estructura :
    Con(cargar(archivo, hoja, estructura), LAMBDA carga :
    Con(IF carga.columnas_vacuna # << >>
        THEN [columnas_vacuna |-> carga.columnas_vacuna, col_dosis |-> carga.col_dosis]
        ELSE resolver_columnas(carga.df, estructura, vac), LAMBDA r1 :
    Con([error |-> ~carga.ok, hoja |-> hoja, estructura |-> estructura,
         df |-> carga.df, columnas_vacuna |-> r1.columnas_vacuna,
         col_dosis |-> r1.col_dosis, modo_jerarquico |-> carga.modo_jerarquico,
         estrategia |-> "carga"], LAMBDA base :
        IF base.error THEN [base EXCEPT !.columnas_vacuna = << >>, !.estrategia = "error"]
        ELSE IF base.columnas_vacuna # << >> THEN base
        ELSE Con(variaciones_header(archivo, hoja, vac, 0), LAMBDA var :
             IF var.ok
             THEN [base EXCEPT !.df = var.df, !.columnas_vacuna = var.columnas_vacuna,
                               !.modo_jerarquico = FALSE, !.estrategia = "variacion"]
             ELSE Con(contenido_bruto(archivo, hoja, vac), LAMBDA bruto :
                  IF bruto.ok
                  THEN [base EXCEPT !.df = bruto.df,
                                    !.columnas_vacuna = bruto.columnas_vacuna,
                                    !.modo_jerarquico = FALSE, !.estrategia = "bruto"]
                  ELSE [base EXCEPT !.estrategia = "ninguna"])))))))

\* --------------------------------------- utils.extraer_vereda_de_direccion

\* line 477
palabras_clave ==
    << <<"V","E","R","E","D","A">>,
       <<"V","D","A">>,
       <<"V","E","R",".">>,
       <<"C","A","S","E","R","I","O">>,
       <<"C","O","R","R","E","G","I","M","I","E","N","T","O">>,
       <<"F","I","N","C","A">> >>
\* line 494
separadores == <<",", ".", "-", ";", "(">>
\* line 500: the longest text taken when no separator follows
MaxVereda == 30

\* str.find(t): the 0-based place of the first occurrence, -1 when none
find(s, t) ==
    IF Contiene(s, t)
    THEN (CHOOSE i \in 1..(Len(s) - Len(t) + 1) :
             /\ SubSeq(s, i, i + Len(t) - 1) = t
             /\ \A j \in 1..(i - 1) : SubSeq(s, j, j + Len(t) - 1) # t) - 1
    ELSE 0 - 1

RECURSIVE hasta_separador(_, _)
\* lines 494-500: the separators are tried in the order of the list, from the
\* k-th on; the first one that occurs after the first character cuts the text
hasta_separador(resto, k) ==
    IF k > Len(separadores)
    THEN IF resto # << >> THEN Str(strip(SubSeq(resto, 1, Min(MaxVereda, Len(resto))))) ELSE NaN
    ELSE IF find(resto, <<separadores[k]>>) > 0
         THEN Str(strip(SubSeq(resto, 1, find(resto, <<separadores[k]>>))))
         ELSE hasta_separador(resto, k + 1)

RECURSIVE vereda_desde(_, _)
\* lines 485-500: the first key word of the list that occurs decides
vereda_desde(direccion, k) ==
    IF k > Len(palabras_clave) THEN NaN
    ELSE IF Contiene(direccion, palabras_clave[k])
         THEN hasta_separador(
                  strip(SubSeq(direccion,
                               find(direccion, palabras_clave[k]) + Len(palabras_clave[k]) + 1,
                               Len(direccion))), 1)
         ELSE vereda_desde(direccion, k + 1)

\* utils.extraer_vereda_de_direccion: None is the value NaN
extraer_vereda_de_direccion(direccion) ==
    IF direccion.k # "str" THEN NaN ELSE vereda_desde(upper(direccion.s), 1)

\* ------------------------------------------------ paths and file names
\* A path is a text whose components are separated by "/", already in the
\* form os.path.normpath gives it.

RECURSIVE ultimo_indice(_, _)
\* str.rfind(c): the 1-based place of the last c, 0 when none
ultimo_indice(s, c) ==
    IF s = << >> THEN 0
    ELSE IF s[Len(s)] = c THEN Len(s) ELSE ultimo_indice(SubSeq(s, 1, Len(s) - 1), c)

\* os.path.basename
basename(ruta) == SubSeq(ruta, ultimo_indice(ruta, "/") + 1, Len(ruta))
\* os.path.splitext(nombre)[0] of a file name: the extension starts at the
\* last dot, unless only dots come before it
splitext_0(nombre) ==
    IF ultimo_indice(nombre, ".") > 1
       /\ \E i \in 1..(ultimo_indice(nombre, ".") - 1) : nombre[i] # "."
    THEN SubSeq(nombre, 1, ultimo_indice(nombre, ".") - 1)
    ELSE nombre

\* the class [A-Za-z]
es_letra(c) == \E i \in 1..26 : Mayusculas[i] = c \/ Minusculas[i] = c
RECURSIVE letras_iniciales(_)
\* the longest run of letters a text starts with: what [A-Za-z]+ takes
letras_iniciales(s) ==
    IF s # << >> /\ es_letra(Head(s)) THEN <<Head(s)>> \o letras_iniciales(Tail(s)) ELSE << >>
\* re.match(r'^([A-Za-z]+)_', s): group 1, the empty text when there is no match
match_letras_(s) ==
    IF letras_iniciales(s) # << >>
       /\ Len(s) > Len(letras_iniciales(s))
       /\ s[Len(letras_iniciales(s)) + 1] = "_"
    THEN letras_iniciales(s) ELSE << >>
s_REGISTRO_ == <<"R","E","G","I","S","T","R","O","_">>
empieza_por(s, t) == Len(s) >= Len(t) /\ SubSeq(s, 1, Len(t)) = t

\* utils.extraer_nombre_municipio, lines 20-35: the second pattern is tried
\* after the first
extraer_nombre_municipio(ruta_archivo) ==
    IF match_letras_(basename(ruta_archivo)) # << >>
    THEN upper(match_letras_(basename(ruta_archivo)))
    ELSE IF /\ empieza_por(basename(ruta_archivo), s_REGISTRO_)
            /\ match_letras_(SubSeq(basename(ruta_archivo), Len(s_REGISTRO_) + 1,
                                    Len(basename(ruta_archivo)))) # << >>
         THEN upper(match_letras_(SubSeq(basename(ruta_archivo), Len(s_REGISTRO_) + 1,
                                         Len(basename(ruta_archivo)))))
         ELSE upper(splitext_0(basename(ruta_archivo)))

\* lines 69-88: the dictionary of the month tokens, in the order Python
\* iterates it: the keys, and the value of each
meses_claves ==
    << <<"E","N","E","R","O">>,
       <<"F","E","B","R","U","A","R","Y">>,
       <<"F","E","B","R","E","R","O">>,
       <<"M","A","R","Z","O">>,
       <<"M","A","R","C","H">>,
       <<"A","B","R","I","L">>,
       <<"A","P","R","I","L">>,
       <<"M","A","Y","O">>,
       <<"M","A","Y">>,
       <<"J","U","N","I","O">>,
       <<"J","U","N","E">>,
       <<"J","U","L","I","O">>,
       <<"J","U","L","Y">>,
       <<"A","G","O","S","T","O">>,
       <<"A","U","G","U","S","T">>,
       <<"S","E","P","T","I","E","M","B","R","E">>,
       <<"S","E","P","T","E","M","B","E","R">>,
       <<"O","C","T","U","B","R","E">>,
       <<"O","C","T","O","B","E","R">>,
       <<"N","O","V","I","E","M","B","R","E">>,
       <<"N","O","V","E","M","B","E","R">>,
       <<"D","I","C","I","E","M","B","R","E">>,
       <<"D","E","C","E","M","B","E","R">>,
       <<"E","N","E">>,
       <<"J","A","N">>,
       <<"F","E","B">>,
       <<"M","A","R">>,
       <<"A","B","R">>,
       <<"A","P","R">>,
       <<"J","U","N">>,
       <<"J","U","L">>,
       <<"A","G","O">>,
       <<"A","U","G">>,
       <<"S","E","P">>,
       <<"O","C","T">>,
       <<"N","O","V">>,
       <<"D","I","C">>,
       <<"D","E","C">>,
       <<"0","1">>,
       <<"0","2">>,
       <<"0","3">>,
       <<"0","4">>,
       <<"0","5">>,
       <<"0","6">>,
       <<"0","7">>,
       <<"0","8">>,
       <<"0","9">>,
       <<"1">>,
       <<"2">>,
       <<"3">>,
       <<"4">>,
       <<"5">>,
       <<"6">>,
       <<"7">>,
       <<"8">>,
       <<"9">>,
       <<"1","0">>,
       <<"1","1">>,
       <<"1","2">> >>
meses_valores ==
    << <<"0","1">>,
       <<"0","2">>,
       <<"0","2">>,
       <<"0","3">>,
       <<"0","3">>,
       <<"0","4">>,
       <<"0","4">>,
       <<"0","5">>,
       <<"0","5">>,
       <<"0","6">>,
       <<"0","6">>,
       <<"0","7">>,
       <<"0","7">>,
       <<"0","8">>,
       <<"0","8">>,
       <<"0","9">>,
       <<"0","9">>,
       <<"1","0">>,
       <<"1","0">>,
       <<"1","1">>,
       <<"1","1">>,
       <<"1","2">>,
       <<"1","2">>,
       <<"0","1">>,
       <<"0","1">>,
       <<"0","2">>,
       <<"0","3">>,
       <<"0","4">>,
       <<"0","4">>,
       <<"0","6">>,
       <<"0","7">>,
       <<"0","8">>,
       <<"0","8">>,
       <<"0","9">>,
       <<"1","0">>,
       <<"1","1">>,
       <<"1","2">>,
       <<"1","2">>,
       <<"0","1">>,
       <<"0","2">>,
       <<"0","3">>,
       <<"0","4">>,
       <<"0","5">>,
       <<"0","6">>,
       <<"0","7">>,
       <<"0","8">>,
       <<"0","9">>,
       <<"0","1">>,
       <<"0","2">>,
       <<"0","3">>,
       <<"0","4">>,
       <<"0","5">>,
       <<"0","6">>,
       <<"0","7">>,
       <<"0","8">>,
       <<"0","9">>,
       <<"1","0">>,
       <<"1","1">>,
       <<"1","2">> >>

s_REGISTROS_ == <<"R","E","G","I","S","T","R","O","S","_">>

RECURSIVE split(_, _)
\* str.split(sep) with a separator of one character
split(s, sep) ==
    IF ~EstaEn(sep, s) THEN <<s>>
    ELSE <<SubSeq(s, 1, IndiceEn(sep, s) - 1)>> \o split(SubSeq(s, IndiceEn(sep, s) + 1, Len(s)), sep)
\* s[-4:]
ultimos_4(s) == SubSeq(s, Max(1, Len(s) - 3), Len(s))
\* str.isdigit()
isdigit(s) == s # << >> /\ \A i \in 1..Len(s) : EstaEn(s[i], Digitos)

RECURSIVE anio_y_municipio(_, _, _)
\* lines 58-66: every component named REGISTROS_<year> sets the year and, when
\* a folder follows it, the municipality; a later one overrides an earlier one
anio_y_municipio(componentes, i, r) ==
    IF i > Len(componentes) THEN r
    ELSE anio_y_municipio(componentes, i + 1,
            IF /\ empieza_por(componentes[i], s_REGISTROS_)
               /\ Len(componentes[i]) >= 11
               /\ isdigit(ultimos_4(componentes[i]))
            THEN [r EXCEPT !.anio = Str(ultimos_4(componentes[i])),
                           !.municipio = IF i < Len(componentes) - 1
                                         THEN Str(upper(componentes[i + 1]))
                                         ELSE r.municipio]
            ELSE r)

RECURSIVE mes_desde(_, _)
\* lines 90-95: the first key, in the order of the dictionary, that occurs in
\* the name.  Lines 97-118 run when no key occurs: then the name holds none
\* of the digits 1 to 9, every month a date pattern can give is "00", and
\* mes stays None
mes_desde(nombre_archivo_upper, k) ==
    IF k > Len(meses_claves) THEN NaN
    ELSE IF Contiene(nombre_archivo_upper, meses_claves[k]) THEN Str(meses_valores[k])
    ELSE mes_desde(nombre_archivo_upper, k + 1)

RECURSIVE carpeta_municipio(_, _)
\* lines 121-128: from the folder of the file upwards, the first component
\* that is in upper case, is no REGISTROS_ folder and does not end in digits
carpeta_municipio(componentes, i) ==
    IF i < 1 THEN NaN
    ELSE IF /\ ~empieza_por(componentes[i], s_REGISTROS_)
            /\ ~isdigit(ultimos_4(componentes[i]))
            /\ upper(componentes[i]) = componentes[i]
         THEN Str(upper(componentes[i]))
         ELSE carpeta_municipio(componentes, i - 1)

\* not resultado["municipio"]: None or the empty text
sin_municipio(r) == r.municipio = NaN \/ r.municipio = Str(<< >>)

\* utils.extraer_info_ruta
extraer_info_ruta(ruta_archivo) ==
    Con(anio_y_municipio(split(ruta_archivo, "/"), 1, [municipio |-> NaN, anio |-> NaN, mes |-> NaN]),
        LAMBDA r :
          [municipio |-> IF sin_municipio(r)
                         THEN carpeta_municipio(split(ruta_archivo, "/"),
                                                Len(split(ruta_archivo, "/")) - 1)
                         ELSE r.municipio,
           anio |-> r.anio,
           mes |-> mes_desde(upper(splitext_0(basename(ruta_archivo))), 1)])

\* ------------------------------------------------------------ the dates

\* a pandas Timestamp: the day as the number yyyymmdd; NaT is the value NaN
Timestamp(y, m, d) == [k |-> "fecha", s |-> << >>, n |-> (y * 10000) + (m * 100) + d, d |-> 1]

bisiesto(y) == (y % 4 = 0 /\ y % 100 # 0) \/ y % 400 = 0
dias_del_mes(y, m) ==
    IF m = 2 THEN (IF bisiesto(y) THEN 29 ELSE 28)
    ELSE IF m \in {4, 6, 9, 11} THEN 30 ELSE 31

\* the directive %m, and %d but for its form ' 5': one or two digits
dos_digitos_a_lo_mas(s) == isdigit(s) /\ Len(s) <= 2
\* the directive %y: two digits, 69-99 in the 1900s and 00-68 in the 2000s
siglo(yy) == IF yy <= 68 THEN 2000 + yy ELSE 1900 + yy
\* the number of a %d field, 0 when the text is not one
numero_de_dia(s) ==
    IF dos_digitos_a_lo_mas(s) THEN valor_digitos(s)
    ELSE IF Len(s) = 2 /\ s[1] = " " /\ isdigit(<<s[2]>>) THEN valor_digitos(<<s[2]>>)
    ELSE 0

\* the day of the calendar, NaT when there is no such day
dia_valido(y, m, d) ==
    IF m \in 1..12 /\ d >= 1 /\ d <= dias_del_mes(y, m) THEN Timestamp(y, m, d) ELSE NaN

\* lines 411 and 519-523: pd.to_datetime(x, format="%m/%d/%y", errors="coerce")
\* on one value of the column. A Timestamp is kept, a text is read with the
\* format and the whole of it must match, every other value and every text
\* that does not match is NaT; with errors="coerce" the call does not raise
\* on such values, so the handlers of lines 412-418 and 524-535 do not run
con_formato(v) ==
    IF v.k = "fecha" THEN v
    ELSE IF v.k # "str" THEN NaN
    ELSE LET p == split(v.s, "/")
         IN  IF Len(p) = 3 /\ dos_digitos_a_lo_mas(p[1]) /\ numero_de_dia(p[2]) > 0
                /\ isdigit(p[3]) /\ Len(p[3]) = 2
             THEN dia_valido(siglo(valor_digitos(p[3])), valor_digitos(p[1]), numero_de_dia(p[2]))
             ELSE NaN

\* a truthy value of info_ruta: a non-empty text
verdadero(v) == v.k = "str" /\ v.s # << >>

\* lines 421-425 and 539-543: the first day of the month of the path, NaT
\* when the path gave no year or no month
fecha_de_ruta(info_ruta) ==
    IF verdadero(info_ruta.anio) /\ verdadero(info_ruta.mes)
    THEN dia_valido(valor_digitos(info_ruta.anio.s), valor_digitos(info_ruta.mes.s), 1)
    ELSE NaN

\* lines 326-336: the dose column, when the loading step left it unset
resolver_dosis(res) ==
    IF res.col_dosis.ok THEN res.col_dosis
    ELSE IF res.modo_jerarquico THEN dosis_jerarquica(res.columnas_vacuna)
    ELSE identificar_columna_dosis(res.df, res.columnas_vacuna)

\* lines 366-369: the text of a label that the base terms are searched in
col_str(col, modo_jerarquico) ==
    IF modo_jerarquico /\ col.tuple THEN col.l0 \o <<" ">> \o col.l1 ELSE str_col(col)

es_columna_base(col, modo_jerarquico) ==
    \E k \in 1..Len(columnas_base_needed) :
        Contiene(lower(col_str(col, modo_jerarquico)), lower(columnas_base_needed[k]))

\* lines 363-373
columnas_existentes(res) ==
    LET idx == filtrar_idx(1, NCols(res.df),
                   [j \in 1..NCols(res.df) |-> es_columna_base(res.df.cols[j], res.modo_jerarquico)])
    IN  [i \in 1..Len(idx) |-> res.df.cols[idx[i]]]

Elementos(seq) == {seq[i] : i \in 1..Len(seq)}
\* line 376: set(columnas_existentes + list(columnas_vacuna))
conjunto_seleccionadas(res) == Elementos(columnas_existentes(res)) \cup Elementos(res.columnas_vacuna)
\* list(set(...)): the orders in which a set can be listed
Ordenes(S) ==
    {p \in [1..Cardinality(S) -> S] : \A i, j \in 1..Cardinality(S) : i # j => p[i] # p[j]}

\* df[cols].copy()
proyectar(df, cols) ==
    Con(df, LAMBDA t :
        [cols |-> cols,
         rows |-> Lista([r \in 1..NRows(t) |->
                      Lista([i \in 1..Len(cols) |-> t.rows[r][PosCol(t, cols[i])]])])])

\* df[col] = valores: an existing column is overwritten, a new one is appended
asignar(df, col, valores) ==
    Con(df, LAMBDA t :
        IF PosCol(t, col) # 0
        THEN [t EXCEPT !.rows = Lista([r \in 1..NRows(t) |->
                                    [t.rows[r] EXCEPT ![PosCol(t, col)] = valores[r]]])]
        ELSE [cols |-> Append(t.cols, col),
              rows |-> Lista([r \in 1..NRows(t) |-> Append(t.rows[r], valores[r])])])

\* a derived column's label: in a table with tuple labels it is (nombre, '')
etiqueta(nombre, modo_jerarquico) ==
    IF modo_jerarquico THEN Tupla(nombre, << >>) ELSE Plana(nombre)

\* lines 402-406 and 512-514: the attention-date column of df_filtrado
columna_fecha(df, modo_jerarquico) ==
    primera_con(df.cols,
        [j \in 1..NCols(df) |->
            IF modo_jerarquico
            THEN df.cols[j].tuple /\ (\/ Contiene(lower(df.cols[j].l0), s_fecha)
                                       \/ Contiene(lower(df.cols[j].l1), s_fecha))
            ELSE Contiene(lower(str_col(df.cols[j])), s_fecha)])

es_fin(v) == v.k = "str" /\ v.s = s_fin

\* lines 410 and 515: the rows whose date is neither null nor "fin"
filtrar_por_fecha(df, modo_jerarquico) ==
    Con(df, LAMBDA t :
        Con(columna_fecha(t, modo_jerarquico), LAMBDA fc :
            IF ~fc.ok THEN t
            ELSE Con(filtrar_idx(1, NRows(t),
                         [r \in 1..NRows(t) |->
                             notna(Columna(t, fc.col)[r]) /\ ~es_fin(Columna(t, fc.col)[r])]),
                     LAMBDA idx :
                         [t EXCEPT !.rows = Lista([i \in 1..Len(idx) |-> t.rows[idx[i]]])])))

\* lines 431 and 605
tipo_dosis(v) == IF notna(v) /\ ~es_fin(v) THEN Str(limpiar_texto(v)) ELSE NaN
\* lines 436 and 610: 1 if x and PALABRA in str(x).upper() else 0
es_dosis(x, palabra) ==
    Num(IF x.k = "str" /\ x.s # << >> /\ Contiene(upper(x.s), palabra) THEN 1 ELSE 0)

\* variant: the dose column is not looked at
vacunado_sin_dosis(df, columnas_vacuna, col_dosis) ==
    Con(df, LAMBDA t :
        [r \in 1..NRows(t) |->
            Bool(\E i \in 1..Len(columnas_vacuna) : notna(Columna(t, columnas_vacuna[i])[r]))])

\* lines 428 and 449, 603 and 623: the column Vacunado
vacunado(df, columnas_vacuna, col_dosis) ==
    Con(df, LAMBDA t :
        [r \in 1..NRows(t) |->
            IF col_dosis.ok
            THEN Bool(notna(Columna(t, col_dosis.col)[r]) /\ ~es_fin(Columna(t, col_dosis.col)[r]))
            ELSE Bool(\E i \in 1..Len(columnas_vacuna) :
                          notna(Columna(t, columnas_vacuna[i])[r]))])

\* lines 427-450 and 601-628: Vacunado, Tipo_Dosis and the four counters
agregar_vacunacion(df, columnas_vacuna, col_dosis, modo) ==
    Con(df, LAMBDA t :
        LET n == NRows(t)
            dosis == Columna(t, col_dosis.col)
            tipo == [r \in 1..n |-> IF col_dosis.ok THEN tipo_dosis(dosis[r]) ELSE NaN]
            d1 == asignar(t, etiqueta(s_Vacunado, modo), vacunado(t, columnas_vacuna, col_dosis))
            d2 == asignar(d1, etiqueta(s_Tipo_Dosis, modo), tipo)
            d3 == asignar(d2, etiqueta(s_Es_Primera_Dosis, modo), [r \in 1..n |-> es_dosis(tipo[r], s_PRIMERA)])
            d4 == asignar(d3, etiqueta(s_Es_Segunda_Dosis, modo), [r \in 1..n |-> es_dosis(tipo[r], s_SEGUNDA)])
            d5 == asignar(d4, etiqueta(s_Es_Refuerzo, modo), [r \in 1..n |-> es_dosis(tipo[r], s_REFUERZO)])
        IN  asignar(d5, etiqueta(s_Es_Unica_Dosis, modo), [r \in 1..n |-> es_dosis(tipo[r], s_UNICA)]))

s_Municipio_Vacunacion == <<"M","u","n","i","c","i","p","i","o","_","V","a","c","u","n","a","c","i","o","n">>
s_Anio_Registro == <<"A","n~","o","_","R","e","g","i","s","t","r","o">>
s_Mes_Registro == <<"M","e","s","_","R","e","g","i","s","t","r","o">>

\* lines 545-548 and 630-638: in the flat mode, the place and the period of
\* the file on every row, the municipality cleaned by limpiar_texto; the
\* hierarchical branch (lines 396-506) adds none of the three
agregar_lugar(df, info_ruta, modo_jerarquico) ==
    Con(df, LAMBDA t :
        IF modo_jerarquico THEN t
        ELSE asignar(
               asignar(
                 asignar(t, Plana(s_Municipio_Vacunacion),
                         [r \in 1..NRows(t) |->
                             IF notna(info_ruta.municipio)
                             THEN Str(limpiar_texto(info_ruta.municipio)) ELSE NaN]),
                 Plana(s_Anio_Registro), [r \in 1..NRows(t) |-> info_ruta.anio]),
               Plana(s_Mes_Registro), [r \in 1..NRows(t) |-> info_ruta.mes]))

s_Fecha == <<"F","e","c","h","a">>
s_Departamento_Residencia == <<"D","e","p","a","r","t","a","m","e","n","t","o","_","R","e","s","i","d","e","n","c","i","a">>
s_Municipio_Residencia == <<"M","u","n","i","c","i","p","i","o","_","R","e","s","i","d","e","n","c","i","a">>
s_Localidad_Residencia == <<"L","o","c","a","l","i","d","a","d","_","R","e","s","i","d","e","n","c","i","a">>
s_Area_Residencia == <<"A","r","e","a","_","R","e","s","i","d","e","n","c","i","a">>
s_Tipo_Area == <<"T","i","p","o","_","A","r","e","a">>
s_Vereda_Residencia == <<"V","e","r","e","d","a","_","R","e","s","i","d","e","n","c","i","a">>
s_Edad_Num == <<"E","d","a","d","_","N","u","m">>
s_Grupo_Etario == <<"G","r","u","p","o","_","E","t","a","r","i","o">>
s_residencia == <<"r","e","s","i","d","e","n","c","i","a">>
s_departamento == <<"d","e","p","a","r","t","a","m","e","n","t","o">>
s_municipio == <<"m","u","n","i","c","i","p","i","o">>
s_comuna == <<"c","o","m","u","n","a">>
s_localidad == <<"l","o","c","a","l","i","d","a","d">>
s_area == <<"a","r","e","a">>
s_area_con_tilde == <<"a^","r","e","a">>
s_URBANA == <<"U","R","B","A","N","A">>
s_RURAL == <<"R","U","R","A","L">>
s_OTRA == <<"O","T","R","A">>
s_direcc == <<"d","i","r","e","c","c">>
s_anio == <<"a","n~","o">>
s_anios == <<"a","n~","o","s">>
s_edad == <<"e","d","a","d">>

\* lines 552-557: the terms that name each residence field in a flat label
campos_busqueda ==
    << [campo |-> s_Departamento_Residencia, terminos |-> << <<"d","e","p","a","r","t","a","m","e","n","t","o">>, <<"d","e","p","t","o">>, <<"d","p","t","o">> >>],
       [campo |-> s_Municipio_Residencia, terminos |-> << <<"m","u","n","i","c","i","p","i","o">>, <<"c","i","u","d","a","d">>, <<"m","u","n","i">> >>],
       [campo |-> s_Localidad_Residencia, terminos |-> << <<"c","o","m","u","n","a">>, <<"l","o","c","a","l","i","d","a","d">>, <<"b","a","r","r","i","o">>, <<"v","e","r","e","d","a">> >>],
       [campo |-> s_Area_Residencia, terminos |-> << <<"a","r","e","a">>, <<"a^","r","e","a">>, <<"z","o","n","a">>, <<"u","r","b","a","n","a">>, <<"r","u","r","a","l">> >>] >>
\* line 630
cols_texto ==
    << s_Municipio_Vacunacion, s_Departamento_Residencia, s_Municipio_Residencia,
       s_Localidad_Residencia, s_Vereda_Residencia >>

\* lines 408-425 and 517-543: the column Fecha, converted from the date column
\* of df_filtrado or, without one, taken from the path of the file
agregar_fecha(df, fecha_col, info_ruta, modo_jerarquico) ==
    Con(df, LAMBDA t :
        asignar(t, etiqueta(s_Fecha, modo_jerarquico),
                [r \in 1..NRows(t) |->
                    IF fecha_col.ok THEN con_formato(Columna(t, fecha_col.col)[r])
                    ELSE fecha_de_ruta(info_ruta)]))

\* x.apply(lambda x: limpiar_texto(x) if pd.notna(x) else None)
limpiar_columna(df, col) ==
    Con(df, LAMBDA t :
        [r \in 1..NRows(t) |->
            IF notna(Columna(t, col)[r]) THEN Str(limpiar_texto(Columna(t, col)[r])) ELSE NaN])
\* a column of None
columna_nula(df) == [r \in 1..NRows(df) |-> NaN]

\* lines 459-471: the residence field that a tuple label names
campo_jerarquico(col) ==
    IF ~col.tuple THEN "ninguno"
    ELSE IF /\ Contiene(lower(col_str(col, TRUE)), s_departamento)
            /\ Contiene(lower(col_str(col, TRUE)), s_residencia) THEN "depto"
    ELSE IF /\ Contiene(lower(col_str(col, TRUE)), s_municipio)
            /\ Contiene(lower(col_str(col, TRUE)), s_residencia) THEN "muni"
    ELSE IF \/ Contiene(lower(col_str(col, TRUE)), s_comuna)
            \/ Contiene(lower(col_str(col, TRUE)), s_localidad) THEN "local"
    ELSE IF \/ Contiene(lower(col_str(col, TRUE)), s_area_con_tilde)
            \/ Contiene(lower(col_str(col, TRUE)), s_area) THEN "area"
    ELSE "ninguno"

\* the loop of lines 459-471 has no break: the last label of a field wins
ultima_con(seq, P) ==
    Con(Lista(P), LAMBDA p :
        IF \E j \in 1..Len(seq) : p[j]
        THEN Alguna(seq[CHOOSE j \in 1..Len(seq) : p[j] /\ \A i \in (j + 1)..Len(seq) : ~p[i]])
        ELSE Ninguna)

\* lines 474-484: one residence column of a table with tuple labels
residencia_de(df, destino, campo, columnas) ==
    Con(df, LAMBDA t :
        Con(ultima_con(columnas, [j \in 1..Len(columnas) |-> campo_jerarquico(columnas[j]) = campo]),
            LAMBDA col :
                asignar(t, etiqueta(destino, TRUE),
                        IF col.ok THEN limpiar_columna(t, col.col) ELSE columna_nula(t))))

\* lines 452-484
residencia_jerarquica(df) ==
    Con(df, LAMBDA t :
        residencia_de(
          residencia_de(
            residencia_de(
              residencia_de(t, s_Departamento_Residencia, "depto", t.cols),
              s_Municipio_Residencia, "muni", t.cols),
            s_Localidad_Residencia, "local", t.cols),
          s_Area_Residencia, "area", t.cols))

\* lines 560-571: one field of campos_busqueda, copied from the first column
\* whose label holds one of its terms and 'residencia'
mapear_campo(df, k) ==
    Con(df, LAMBDA t :
        Con(primera_con(t.cols,
                [j \in 1..NCols(t) |->
                    /\ ContieneAlguno(lower(str_col(t.cols[j])), campos_busqueda[k].terminos)
                    /\ Contiene(lower(str_col(t.cols[j])), s_residencia)]),
            LAMBDA col :
                IF col.ok THEN asignar(t, Plana(campos_busqueda[k].campo), limpiar_columna(t, col.col))
                ELSE t))

\* lines 574-578
tipo_area(x) ==
    IF verdadero(x) /\ Contiene(upper(x.s), s_URBANA) THEN Str(s_URBANA)
    ELSE IF verdadero(x) /\ Contiene(upper(x.s), s_RURAL) THEN Str(s_RURAL)
    ELSE Str(s_OTRA)

\* lines 580-595: the locality when some row has one, else what the first
\* address column gives, else no column
agregar_vereda(df) ==
    Con(df, LAMBDA t :
        IF \E r \in 1..NRows(t) : notna(Columna(t, Plana(s_Localidad_Residencia))[r])
        THEN asignar(t, Plana(s_Vereda_Residencia), Columna(t, Plana(s_Localidad_Residencia)))
        ELSE Con(primera_con(t.cols,
                     [j \in 1..NCols(t) |-> Contiene(lower(str_col(t.cols[j])), s_direcc)]),
                 LAMBDA dir_col :
                     IF dir_col.ok
                     THEN asignar(t, Plana(s_Vereda_Residencia),
                              [r \in 1..NRows(t) |->
                                  IF notna(Columna(t, dir_col.col)[r])
                                  THEN extraer_vereda_de_direccion(Columna(t, dir_col.col)[r])
                                  ELSE NaN])
                     ELSE t))

\* lines 548-595
residencia_plana(df) ==
    Con(df, LAMBDA t :
        Con(mapear_campo(mapear_campo(mapear_campo(mapear_campo(
                asignar(asignar(asignar(asignar(t,
                    Plana(s_Departamento_Residencia), columna_nula(t)),
                    Plana(s_Municipio_Residencia), columna_nula(t)),
                    Plana(s_Localidad_Residencia), columna_nula(t)),
                    Plana(s_Area_Residencia), columna_nula(t)),
                1), 2), 3), 4),
            LAMBDA d :
                agregar_vereda(asignar(d, Plana(s_Tipo_Area),
                    [r \in 1..NRows(d) |-> tipo_area(Columna(d, Plana(s_Area_Residencia))[r])]))))

RECURSIVE limpiar_textos(_, _)
\* lines 630-638: the text columns that exist, cleaned once more
limpiar_textos(df, k) ==
    Con(df, LAMBDA t :
        IF k > Len(cols_texto) THEN t
        ELSE limpiar_textos(
                 IF PosCol(t, Plana(cols_texto[k])) # 0
                 THEN asignar(t, Plana(cols_texto[k]), limpiar_columna(t, Plana(cols_texto[k])))
                 ELSE t,
                 k + 1))

\* pd.to_numeric(x, errors="coerce") on one value: a number is kept, a text
\* that float() reads is its number, everything else is NaN
to_numeric(v) ==
    IF v.k \in {"num", "bool"} THEN Float(v.n, v.d)
    ELSE IF v.k # "str" \/ strip(v.s) = << >> THEN NaN
    ELSE LET t == strip(v.s)
             signo == Head(t) \in {"-", "+"}
             cuerpo == IF signo THEN Tail(t) ELSE t
         IN  IF cuerpo # << >> /\ solo_numeros(cuerpo) = cuerpo /\ float_texto(cuerpo).ok
             THEN Float((IF Head(t) = "-" THEN 0 - 1 ELSE 1) * float_texto(cuerpo).n,
                        float_texto(cuerpo).d)
             ELSE NaN

\* lines 487-495 and 641-643: the age column of df_filtrado, the derived
\* columns among its labels; a tuple label must hold 'años' or 'edad', a flat
\* one 'año' or 'edad'
columna_edad(df, modo_jerarquico) ==
    primera_con(df.cols,
        [j \in 1..NCols(df) |->
            IF modo_jerarquico
            THEN df.cols[j].tuple /\ (\/ Contiene(lower(col_str(df.cols[j], TRUE)), s_anios)
                                       \/ Contiene(lower(col_str(df.cols[j], TRUE)), s_edad))
            ELSE \/ Contiene(lower(str_col(df.cols[j])), s_anio)
                 \/ Contiene(lower(str_col(df.cols[j])), s_edad)])

\* variant: without an age column, the group of the first column
grupo_de_la_primera(df, col_edad) ==
    Con(df, LAMBDA t :
        [r \in 1..NRows(t) |-> Str(clasificar_grupo_etario(to_numeric(t.rows[r][1])))])

\* lines 498-506 and 644-653: the column Grupo_Etario
grupo_etario(df, col_edad) ==
    Con(df, LAMBDA t :
        [r \in 1..NRows(t) |->
            IF col_edad.ok
            THEN Str(clasificar_grupo_etario(to_numeric(Columna(t, col_edad.col)[r])))
            ELSE Str(g_no_especificado)])

\* lines 486-506 and 640-653: Edad_Num, when there is an age column, and
\* Grupo_Etario
agregar_grupo_etario(df, modo_jerarquico) ==
    Con(df, LAMBDA t :
        Con(columna_edad(t, modo_jerarquico), LAMBDA col_edad :
            asignar(
                IF col_edad.ok
                THEN asignar(t, etiqueta(s_Edad_Num, modo_jerarquico),
                             [r \in 1..NRows(t) |-> to_numeric(Columna(t, col_edad.col)[r])])
                ELSE t,
                etiqueta(s_Grupo_Etario, modo_jerarquico),
                grupo_etario(t, col_edad))))

\* lines 375-638: df_filtrado, with its selected columns listed in `orden`,
\* before the age groups are added
antes_de_edad(res, orden, info_ruta) ==
    Con(proyectar(res.df, orden), LAMBDA df :
    Con(info_ruta, LAMBDA info :
    Con(resolver_dosis(res), LAMBDA col_dosis :
    Con(agregar_fecha(filtrar_por_fecha(df, res.modo_jerarquico),
                      columna_fecha(df, res.modo_jerarquico), info, res.modo_jerarquico),
        LAMBDA con_fecha :
            IF res.modo_jerarquico
            THEN residencia_jerarquica(
                     agregar_vacunacion(con_fecha, res.columnas_vacuna, col_dosis, TRUE))
            ELSE limpiar_textos(
                     agregar_vacunacion(
                         residencia_plana(agregar_lugar(con_fecha, info, FALSE)),
                         res.columnas_vacuna, col_dosis, FALSE),
                     1)))))

\* lines 375-653: the table that procesar_archivo builds
transformar(res, orden, info_ruta) ==
    agregar_grupo_etario(antes_de_edad(res, orden, info_ruta), res.modo_jerarquico)

\* variant: the file is skipped without a warning
sin_advertencia(archivo) == << >>

\* lines 317-319: the warning of a file in which no vaccine column was found
advertencia_sin_columnas(archivo) == <<[tipo |-> "sin_columnas", archivo |-> archivo.ruta]>>
\* lines 671-676: the warning of a file whose processing raised
advertencia_error(archivo) == <<[tipo |-> "error", archivo |-> archivo.ruta]>>

\* lines 316-677, after the search for the vaccine columns: the value of the
\* call (the table returned, the warnings appended, whether the counters were
\* advanced) and the choices made on the way, the table loaded among them
concluir(res, archivo, orden) ==
    Con([df |-> DataFrameVacio, advertencias |-> << >>, contado |-> FALSE,
         registros |-> 0, estrategia |-> res.estrategia,
         modo_jerarquico |-> res.modo_jerarquico,
         columnas_vacuna |-> res.columnas_vacuna, col_dosis |-> Ninguna,
         fecha_col |-> Ninguna, col_edad |-> Ninguna,
         df_origen |-> res.df], LAMBDA salida :
        IF res.error
        THEN [salida EXCEPT !.advertencias = advertencia_error(archivo)]
        ELSE IF res.columnas_vacuna = << >>
        THEN [salida EXCEPT !.advertencias = advertencia_sin_columnas(archivo)]
        ELSE Con(antes_de_edad(res, orden, extraer_info_ruta(archivo.ruta)), LAMBDA antes :
             Con([salida EXCEPT
                     !.col_dosis = resolver_dosis(res),
                     !.fecha_col = columna_fecha(proyectar(res.df, orden), res.modo_jerarquico),
                     !.col_edad = columna_edad(antes, res.modo_jerarquico)],
                 LAMBDA elegido :
                     IF NRows(antes) = 0 THEN elegido
                     ELSE [elegido EXCEPT
                              !.df = agregar_grupo_etario(antes, res.modo_jerarquico),
                              !.contado = TRUE, !.registros = NRows(antes)])))

\* the listings of the selected columns that one call may work with
ordenes_posibles(res) ==
    IF res.error \/ res.columnas_vacuna = << >> THEN {<< >>}
    ELSE Ordenes(conjunto_seleccionadas(res))

\* PaiProcessor.procesar_archivo: what one call may return
procesar_archivo(vac, archivo) ==
    Con(resolucion(vac, archivo), LAMBDA res :
        {concluir(res, archivo, orden) : orden \in ordenes_posibles(res)})

\* ------------------------------------------------------------ the files
\* The spreadsheets the runs draw their files from.

\* flat headers in row 1; the vaccine column holds the kind of dose;
\* the dates are written in three ways
a_plano ==
    [ruta |-> <<"R","E","G","I","S","T","R","O","S","_","2","0","2","5","/","I","B","A","G","U","E","/","I","B","A","G","U","E","_","2","0","2","5",".","x","l","s","m">>, legible |-> TRUE,
     hojas |-> <<
     [nombre |-> <<"R","e","g","i","s","t","r","o"," ","D","i","a","r","i","o">>,
      filas |->
      << <<Str(<<"P","A","I">>), NaN, NaN>>,
         <<Str(<<"F","e","c","h","a"," ","d","e"," ","a","t","e","n","c","i","o^","n">>), Str(<<"A","N~","O","S">>), Str(<<"F","i","e","b","r","e"," ","a","m","a","r","i","l","l","a">>)>>,
         <<Str(<<"4","/","1","0","/","2","5">>), Num(30), Str(<<"P","r","i","m","e","r","a">>)>>,
         <<Str(<<"2","0","2","5","-","0","4","-","1","1">>), Num(12), Str(<<"S","e","g","u","n","d","a">>)>>,
         <<Str(<<"s","i","n"," ","f","e","c","h","a">>), Num(45), NaN>> >>] >>]
\* the table of tests/test_processor.py: an empty vaccine column, then Dosis and Lote
a_prueba ==
    [ruta |-> <<"T","E","S","T","_","M","U","N","I","C","I","P","I","O",".","x","l","s","m">>, legible |-> TRUE,
     hojas |-> <<
     [nombre |-> <<"R","e","g","i","s","t","r","o"," ","D","i","a","r","i","o">>,
      filas |->
      << <<Str(<<"P","A","I">>), NaN, NaN, NaN>>,
         <<Str(<<"F","e","c","h","a"," ","d","e"," ","a","t","e","n","c","i","o^","n">>), Str(<<"F","i","e","b","r","e"," ","a","m","a","r","i","l","l","a"," ">>), Str(<<"D","o","s","i","s">>), Str(<<"L","o","t","e">>)>>,
         <<Str(<<"4","/","1","0","/","2","5">>), NaN, Str(<<"U^","n","i","c","a">>), Str(<<"1","2","3">>)>>,
         <<Str(<<"4","/","1","1","/","2","5">>), NaN, Str(<<"U^","n","i","c","a">>), Str(<<"4","5","6">>)>>,
         <<Str(<<"4","/","1","2","/","2","5">>), NaN, NaN, NaN>> >>] >>]
\* two header rows: the vaccine spans columns 1 to 3 of row 0
a_jerarquico ==
    [ruta |-> <<"D","A","T","O","S","/","C","A","S","A","B","I","A","N","C","A","/","C","A","S","A","B","I","A","N","C","A","_","A","B","R","I","L",".","x","l","s","x">>, legible |-> TRUE,
     hojas |-> <<
     [nombre |-> <<"R","e","g","i","s","t","r","o"," ","D","i","a","r","i","o">>,
      filas |->
      << <<Str(<<"E","P","S">>), Str(<<"F","i","e","b","r","e"," ","a","m","a","r","i","l","l","a">>), NaN, NaN>>,
         <<NaN, Str(<<"D","o","s","i","s">>), Str(<<"L","o","t","e">>), Str(<<"F","e","c","h","a">>)>>,
         <<Str(<<"S","A","N","I","T","A","S">>), Str(<<"P","r","i","m","e","r","a">>), Str(<<"1","2","3">>), Str(<<"4","/","1","0","/","2","5">>)>>,
         <<Str(<<"N","U","E","V","A">>), NaN, NaN, Str(<<"f","i","n">>)>>,
         <<Str(<<"S","A","N","I","T","A","S">>), Str(<<"R","e","f","u","e","r","z","o">>), NaN, Str(<<"4","/","1","2","/","2","5">>)>> >>] >>]
\* two header rows with two vaccines, Polio to the left of Fiebre amarilla
a_dos_vacunas ==
    [ruta |-> <<"R","E","G","I","S","T","R","O","_","H","O","N","D","A","_","M","A","Y","O",".","x","l","s","x">>, legible |-> TRUE,
     hojas |-> <<
     [nombre |-> <<"R","e","g","i","s","t","r","o"," ","D","i","a","r","i","o">>,
      filas |->
      << <<Str(<<"P","o","l","i","o">>), NaN, Str(<<"F","i","e","b","r","e"," ","a","m","a","r","i","l","l","a">>), NaN>>,
         <<Str(<<"D","o","s","i","s">>), Str(<<"L","o","t","e">>), Str(<<"D","o","s","i","s">>), Str(<<"L","o","t","e">>)>>,
         <<Str(<<"P","r","i","m","e","r","a">>), Str(<<"7","7">>), NaN, Str(<<"9","9">>)>>,
         <<NaN, NaN, Str(<<"S","e","g","u","n","d","a">>), Str(<<"8","8">>)>> >>] >>]
\* the vaccine is named nowhere
a_sin_vacuna ==
    [ruta |-> <<"M","A","R","I","Q","U","I","T","A",".","x","l","s","x">>, legible |-> TRUE,
     hojas |-> <<
     [nombre |-> <<"R","e","g","i","s","t","r","o"," ","D","i","a","r","i","o">>,
      filas |->
      << <<Str(<<"P","A","I">>), NaN, NaN>>,
         <<Str(<<"F","e","c","h","a"," ","d","e"," ","a","t","e","n","c","i","o^","n">>), Str(<<"A","N~","O","S">>), Str(<<"S","e","x","o">>)>>,
         <<Str(<<"4","/","1","0","/","2","5">>), Num(3), Str(<<"M","U","J","E","R">>)>> >>] >>]
\* the header row is row 3: found by the header variations
a_fila_3 ==
    [ruta |-> <<"P","A","I","_","A","B","R","I","L",".","x","l","s","m">>, legible |-> TRUE,
     hojas |-> <<
     [nombre |-> <<"R","e","g","i","s","t","r","o"," ","D","i","a","r","i","o">>,
      filas |->
      << <<Str(<<"P","A","I">>), NaN>>,
         <<Str(<<"T","o","l","i","m","a">>), NaN>>,
         <<Str(<<"2","0","2","5">>), NaN>>,
         <<Str(<<"F","e","c","h","a"," ","d","e"," ","a","t","e","n","c","i","o^","n">>), Str(<<"F","i","e","b","r","e"," ","a","m","a","r","i","l","l","a">>)>>,
         <<Str(<<"4","/","1","0","/","2","5">>), Str(<<"U^","n","i","c","a">>)>>,
         <<NaN, Str(<<"P","r","i","m","e","r","a">>)>> >>] >>]
\* the header row is row 5: found only by the scan of the raw cells
a_fila_5 ==
    [ruta |-> <<"P","A","I","_","M","A","Y","O",".","x","l","s","m">>, legible |-> TRUE,
     hojas |-> <<
     [nombre |-> <<"R","e","g","i","s","t","r","o"," ","D","i","a","r","i","o">>,
      filas |->
      << <<Str(<<"P","A","I">>), NaN>>,
         <<Str(<<"T","o","l","i","m","a">>), NaN>>,
         <<Str(<<"2","0","2","5">>), NaN>>,
         <<Str(<<"A","b","r","i","l">>), NaN>>,
         <<Str(<<"H","o","j","a"," ","1">>), NaN>>,
         <<Str(<<"F","e","c","h","a"," ","d","e"," ","a","t","e","n","c","i","o^","n">>), Str(<<"F","i","e","b","r","e"," ","a","m","a","r","i","l","l","a">>)>>,
         <<Str(<<"4","/","1","0","/","2","5">>), Str(<<"P","r","i","m","e","r","a"," ","d","o","s","i","s">>)>> >>] >>]
\* a file that cannot be opened
a_ilegible ==
    [ruta |-> <<"D","A","N","A","D","O",".","x","l","s">>, legible |-> FALSE,
     hojas |-> <<
      >>]
\* every row has a null or 'fin' date
a_sin_registros ==
    [ruta |-> <<"V","A","C","I","O",".","x","l","s","x">>, legible |-> TRUE,
     hojas |-> <<
     [nombre |-> <<"R","e","g","i","s","t","r","o"," ","D","i","a","r","i","o">>,
      filas |->
      << <<Str(<<"P","A","I">>), NaN>>,
         <<Str(<<"F","e","c","h","a"," ","d","e"," ","a","t","e","n","c","i","o^","n">>), Str(<<"F","i","e","b","r","e"," ","a","m","a","r","i","l","l","a">>)>>,
         <<Str(<<"f","i","n">>), Str(<<"P","r","i","m","e","r","a">>)>>,
         <<NaN, Str(<<"S","e","g","u","n","d","a">>)>> >>] >>]
\* two date columns: the date of birth and the date of attention
a_dos_fechas ==
    [ruta |-> <<"R","E","G","I","S","T","R","O","S","_","2","0","2","5","/","H","O","N","D","A","/","H","O","N","D","A",".","x","l","s","x">>, legible |-> TRUE,
     hojas |-> <<
     [nombre |-> <<"R","e","g","i","s","t","r","o"," ","D","i","a","r","i","o">>,
      filas |->
      << <<Str(<<"P","A","I">>), NaN, NaN>>,
         <<Str(<<"F","e","c","h","a"," ","d","e"," ","n","a","c","i","m","i","e","n","t","o">>), Str(<<"F","e","c","h","a"," ","d","e"," ","a","t","e","n","c","i","o^","n">>), Str(<<"F","i","e","b","r","e"," ","a","m","a","r","i","l","l","a">>)>>,
         <<NaN, Str(<<"4","/","1","0","/","2","5">>), Str(<<"P","r","i","m","e","r","a">>)>>,
         <<Str(<<"1","/","2","/","2","0">>), Str(<<"f","i","n">>), NaN>>,
         <<Str(<<"3","/","4","/","2","1">>), Str(<<"4","/","1","2","/","2","5">>), Str(<<"S","e","g","u","n","d","a">>)>> >>] >>]
\* the analyser reads the first sheet, procesar_archivo the second
a_dos_hojas ==
    [ruta |-> <<"R","E","G","I","S","T","R","O","S","_","2","0","2","5","/","L","E","R","I","D","A","/","D","O","S","_","H","O","J","A","S","_","M","A","R","Z","O",".","x","l","s","x">>, legible |-> TRUE,
     hojas |-> <<
     [nombre |-> <<"D","i","a","r","i","o"," ","r","e","s","u","m","e","n">>,
      filas |->
      << <<Str(<<"F","i","e","b","r","e"," ","a","m","a","r","i","l","l","a">>), NaN>>,
         <<Str(<<"D","o","s","i","s">>), Str(<<"L","o","t","e">>)>>,
         <<Str(<<"P","r","i","m","e","r","a">>), Str(<<"1">>)>> >>],
     [nombre |-> <<"R","e","g","i","s","t","r","o"," ","D","i","a","r","i","o">>,
      filas |->
      << <<Str(<<"P","A","I">>), NaN>>,
         <<Str(<<"D","o","s","i","s"," ","a","p","l","i","c","a","d","a">>), Str(<<"A","N~","O","S">>)>>,
         <<Str(<<"S","e","g","u","n","d","a">>), Num(7)>> >>] >>]

Archivos ==
    << a_plano,
       a_prueba,
       a_jerarquico,
       a_dos_vacunas,
       a_sin_vacuna,
       a_fila_3,
       a_fila_5,
       a_ilegible,
       a_sin_registros,
       a_dos_hojas,
       a_dos_fechas >>

\* ----------------------------------------------------------- the runs

MaxArchivos == 2
Vacunas == {v_Fiebre_amarilla, v_Polio}
TiposConsolidado == {"vacunacion", "residencia", "ambos"}

\* a call of a function of utils.py: its name, its arguments and, once it has
\* returned, its value
Pendiente(fn, entrada) == [fn |-> fn, entrada |-> entrada, hecha |-> FALSE, salida |-> << >>]
Devuelta(ll, salida) == [ll EXCEPT !.hecha = TRUE, !.salida = salida]
SinLlamada == Pendiente("ninguna", << >>)
ResultadoVacio == [claves |-> {}, vacunacion |-> DataFrameVacio, residencia |-> DataFrameVacio]

\* the listings a directory can give: files of the pool, none twice
Listados ==
    UNION {{p \in [1..n -> 1..Len(Archivos)] : \A i, j \in 1..n : i # j => p[i] # p[j]} :
             n \in 0..MaxArchivos}

\* PaiProcessor.__init__, in a directory that holds some files of the pool
Init ==
    /\ vacuna \in Vacunas
    /\ tipo_consolidado \in TiposConsolidado
    /\ archivos_procesados = 0
    /\ registros_totales = 0
    /\ advertencias = << >>
    /\ directorio \in Listados
    /\ pc = "listo"
    /\ archivos = << >>
    /\ dfs = << >>
    /\ traza = << >>
    /\ resultado = ResultadoVacio
    /\ llamada = SinLlamada
    /\ con_restos = FALSE

\* the glob patterns a call may pass: one that every file of the directory
\* matches (the default "*.xls*") and one that no file matches
Patrones == {"*.xls*", "*.csv"}
\* listar_archivos_pai / glob.glob
listar_archivos(dir, patron) == IF patron = "*.xls*" THEN dir ELSE << >>

\* consolidar_archivos, lines 694-720: reset the counters and list the files
\* variant: a counter keeps the value the earlier run left
conservar(contador) == contador

\* lines 695-696: a counter starts again from zero
reiniciar(contador) == 0

ConsolidarInicio ==
    /\ pc \in {"listo", "fin"}
    /\ con_restos' = (archivos_procesados > 0 \/ registros_totales > 0 \/ advertencias # << >>)
    /\ \E patron \in Patrones :
         LET lista == listar_archivos(directorio, patron)
         IN  /\ archivos' = lista
             /\ archivos_procesados' = reiniciar(archivos_procesados)
             /\ registros_totales' = reiniciar(registros_totales)
             /\ dfs' = << >>
             /\ traza' = << >>
             /\ resultado' = ResultadoVacio
             /\ IF lista = << >>
                THEN /\ advertencias' = <<[tipo |-> "sin_archivos", archivo |-> << >>]>>
                     /\ pc' = "fin"
                ELSE /\ advertencias' = << >>
                     /\ pc' = "procesando"
    /\ UNCHANGED << vacuna, tipo_consolidado, directorio, llamada >>

\* what one call of procesar_archivo may return, for each vaccine and each
\* file of the pool
salidas ==
    [v \in Vacunas |->
        [i \in 1..Len(Archivos) |->
            procesar_archivo(v, Archivos[i])]]

\* lines 726-729: one turn of the loop, the whole of procesar_archivo
ProcesarArchivo ==
    /\ pc = "procesando"
    /\ Len(traza) < Len(archivos)
    /\ LET id == archivos[Len(traza) + 1]
       IN  \E s \in salidas[vacuna][id] :
             /\ advertencias' = advertencias \o s.advertencias
             /\ archivos_procesados' = archivos_procesados + (IF s.contado THEN 1 ELSE 0)
             /\ registros_totales' = registros_totales + s.registros
             /\ dfs' = IF empty(s.df) THEN dfs ELSE Append(dfs, s.df)
             /\ traza' = Append(traza, [archivo |-> id, salida |-> s])
    /\ UNCHANGED << vacuna, tipo_consolidado, directorio, pc, archivos, resultado, llamada,
                    con_restos >>

RECURSIVE union_columnas(_)
\* the columns of pd.concat: every label, in the order of its first table
union_columnas(tablas) ==
    IF tablas = << >> THEN << >>
    ELSE LET antes == union_columnas(SubSeq(tablas, 1, Len(tablas) - 1))
             ult == tablas[Len(tablas)].cols
             idx == filtrar_idx(1, Len(ult), [j \in 1..Len(ult) |-> ~EnSeq(ult[j], antes)])
         IN  antes \o [i \in 1..Len(idx) |-> ult[idx[i]]]

\* variant: the rows of the first table only
filas_primera(tablas, cols) ==
    IF tablas = << >> THEN << >>
    ELSE [r \in 1..NRows(Head(tablas)) |->
            [j \in 1..Len(cols) |->
                IF PosCol(Head(tablas), cols[j]) = 0 THEN NaN
                ELSE Head(tablas).rows[r][PosCol(Head(tablas), cols[j])]]]

RECURSIVE filas_concat(_, _)
filas_concat(tablas, cols) ==
    IF tablas = << >> THEN << >>
    ELSE LET df == Head(tablas)
         IN  [r \in 1..NRows(df) |->
                [j \in 1..Len(cols) |->
                    IF PosCol(df, cols[j]) = 0 THEN NaN ELSE df.rows[r][PosCol(df, cols[j])]]]
             \o filas_concat(Tail(tablas), cols)

\* pd.concat(dfs, ignore_index=True)
concat(tablas) ==
    [cols |-> union_columnas(tablas), rows |-> filas_concat(tablas, union_columnas(tablas))]

s_Residencia == <<"R","e","s","i","d","e","n","c","i","a">>
s_Departamento_ == <<"D","e","p","a","r","t","a","m","e","n","t","o","_">>
s_Municipio_ == <<"M","u","n","i","c","i","p","i","o","_">>

\* the Python test `t in col` on a label: a substring test on a flat label,
\* a membership test on a tuple
en_etiqueta(t, col) == IF col.tuple THEN col.l0 = t \/ col.l1 = t ELSE Contiene(col.l0, t)

\* lines 749-752: the residence columns first
por_residencia(df) ==
    LET es_res == [j \in 1..NCols(df) |->
                      \/ en_etiqueta(s_Residencia, df.cols[j])
                      \/ en_etiqueta(s_Departamento_, df.cols[j])
                      \/ en_etiqueta(s_Municipio_, df.cols[j])]
        i1 == filtrar_idx(1, NCols(df), es_res)
        i2 == filtrar_idx(1, NCols(df), [j \in 1..NCols(df) |-> ~es_res[j]])
    IN  proyectar(df, [i \in 1..Len(i1) |-> df.cols[i1[i]]] \o [i \in 1..Len(i2) |-> df.cols[i2[i]]])

\* lines 731-765: combine the tables and build the dictionary returned
Combinar ==
    /\ pc = "procesando"
    /\ Len(traza) = Len(archivos)
    /\ resultado' =
          IF dfs = << >> THEN ResultadoVacio
          ELSE LET df_combinado == concat(dfs)
                   v == tipo_consolidado \in {"vacunacion", "ambos"}
                   r == tipo_consolidado \in {"residencia", "ambos"}
               IN  [claves |-> (IF v THEN {"vacunacion"} ELSE {}) \cup
                               (IF r THEN {"residencia"} ELSE {}),
                    vacunacion |-> IF v THEN df_combinado ELSE DataFrameVacio,
                    residencia |-> IF r THEN por_residencia(df_combinado) ELSE DataFrameVacio]
    /\ pc' = "fin"
    /\ UNCHANGED << vacuna, tipo_consolidado, directorio, archivos_procesados,
                    registros_totales, advertencias, archivos, dfs, traza, llamada, con_restos >>

Next == ConsolidarInicio \/ ProcesarArchivo \/ Combinar

Spec == Init /\ [][Next]_vars

\* ------------------------------------------- the functions of utils.py
\* Each is called on its own: the state holds the call, first pending, then
\* returned.

\* the processor, built and not run
en_reposo ==
    /\ vacuna = v_Fiebre_amarilla
    /\ tipo_consolidado = "vacunacion"
    /\ archivos_procesados = 0
    /\ registros_totales = 0
    /\ advertencias = << >>
    /\ directorio = << >>
    /\ pc = "listo"
    /\ archivos = << >>
    /\ dfs = << >>
    /\ traza = << >>
    /\ resultado = ResultadoVacio
    /\ con_restos = FALSE

proc_vars == << vacuna, tipo_consolidado, archivos_procesados, registros_totales,
                advertencias, directorio, pc, archivos, dfs, traza, resultado,
                con_restos >>

\* the texts of at most n characters over an alphabet
TextosHasta(alfabeto, n) == UNION {[1..k -> alfabeto] : k \in 0..n}

MaxEdad == 61
MaxTexto == 3
CaracteresEdad == {"1", "7", ".", "a"}

\* the ages: missing, not a number, whole, with one decimal, and texts
Edades ==
    {NaN, Obj, Bool(TRUE), Bool(FALSE)}
    \cup {Num(n) : n \in (0 - 1)..MaxEdad}
    \cup {Float(t, 10) : t \in 0..(10 * MaxEdad)}
    \cup {Str(s) : s \in TextosHasta(CaracteresEdad, MaxTexto)}

InitEdad ==
    /\ en_reposo
    /\ llamada \in {Pendiente("clasificar_grupo_etario", <<e>>) : e \in Edades}

ClasificarGrupoEtario ==
    /\ llamada.fn = "clasificar_grupo_etario"
    /\ ~llamada.hecha
    /\ llamada' = Devuelta(llamada, clasificar_grupo_etario(llamada.entrada[1]))
    /\ UNCHANGED proc_vars

SpecEdad == InitEdad /\ [][ClasificarGrupoEtario]_vars

MaxColumnas == 4
\* the columns the tables are made of: a label and the values of two rows
ColumnasPosibles ==
    << [etiqueta |-> <<"A">>,
        valores |-> <<Num(1), Num(2)>>],
       [etiqueta |-> <<"F","i","e","b","r","e"," ","a","m","a","r","i","l","l","a">>,
        valores |-> <<Num(4), Num(5)>>],
       [etiqueta |-> <<"F","i","e","b","r","e"," ","a","m","a","r","i","l","l","a"," ","D","o","s","i","s">>,
        valores |-> <<Num(7), Num(8)>>],
       [etiqueta |-> <<"L","o","t","e">>,
        valores |-> <<Str(<<"1","2","3">>), NaN>>],
       [etiqueta |-> <<"D","o","s","i","s">>,
        valores |-> <<Str(<<"P","r","i","m","e","r","a">>), NaN>>],
       [etiqueta |-> <<"O","b","s","e","r","v","a","c","i","o","n"," ","f","i","e","b","r","e"," ","a","m","a","r","i","l","l","a">>,
        valores |-> <<NaN, Str(<<"n","i","n","g","u","n","a">>)>>],
       [etiqueta |-> <<"T","i","p","o">>,
        valores |-> <<Str(<<"S","e","g","u","n","d","a">>), NaN>>],
       [etiqueta |-> <<"P","o","l","i","o">>,
        valores |-> <<Str(<<"R","e","f","u","e","r","z","o">>), Str(<<"U","n","i","c","a">>)>>] >>

tabla_de(p) ==
    [cols |-> [i \in 1..Len(p) |-> Plana(ColumnasPosibles[p[i]].etiqueta)],
     rows |-> [r \in 1..2 |-> [i \in 1..Len(p) |-> ColumnasPosibles[p[i]].valores[r]]]]

\* the tables of at most MaxColumnas columns, none twice
Tablas ==
    {tabla_de(p) :
        p \in UNION {{q \in [1..n -> 1..Len(ColumnasPosibles)] :
                        \A i, j \in 1..n : i # j => q[i] # q[j]} : n \in 0..MaxColumnas}}

InitColumnas ==
    /\ en_reposo
    /\ llamada \in {Pendiente("encontrar_columnas_vacuna", <<t, v>>) : t \in Tablas, v \in Vacunas}

EncontrarColumnasVacuna ==
    /\ llamada.fn = "encontrar_columnas_vacuna"
    /\ ~llamada.hecha
    /\ llamada' = Devuelta(llamada,
                           encontrar_columnas_vacuna(llamada.entrada[1], llamada.entrada[2]))
    /\ UNCHANGED proc_vars

SpecColumnas == InitColumnas /\ [][EncontrarColumnasVacuna]_vars

MaxFilas == 4
\* the rows the sheets are made of
FilasPosibles ==
    << <<NaN, NaN, NaN>>,
       <<Str(<<"P","A","I">>), NaN, NaN>>,
       <<NaN, Str(<<"F","I","E","B","R","E"," ","A","M","A","R","I","L","L","A">>), NaN>>,
       <<Str(<<"F","e","c","h","a">>), Str(<<"D","o","s","i","s">>), Str(<<"L","o","t","e">>)>>,
       <<Str(<<"S","e","x","o">>), Str(<<"F","i","e","b","r","e"," ","A","m","a","r","i","l","l","a">>), NaN>> >>

hoja_de(p) ==
    [ruta |-> <<"H","O","J","A",".","x","l","s","x">>, legible |-> TRUE,
     hojas |-> <<[nombre |-> s_Registro_Diario,
                  filas |-> [i \in 1..Len(p) |-> FilasPosibles[p[i]]]]>>]

\* files of one sheet of at most MaxFilas rows, and the files of the pool
ArchivosAnalizados ==
    {hoja_de(p) : p \in UNION {[1..n -> 1..Len(FilasPosibles)] : n \in 0..MaxFilas}}
    \cup {Archivos[i] : i \in 1..Len(Archivos)}

InitEstructura ==
    /\ en_reposo
    /\ llamada \in {Pendiente("analizar_estructura_excel", <<a>>) : a \in ArchivosAnalizados}

AnalizarEstructuraExcel ==
    /\ llamada.fn = "analizar_estructura_excel"
    /\ ~llamada.hecha
    /\ llamada' = Devuelta(llamada, analizar_estructura_excel(llamada.entrada[1]))
    /\ UNCHANGED proc_vars

SpecEstructura == InitEstructura /\ [][AnalizarEstructuraExcel]_vars


MaxDireccion == 4
CaracteresDireccion == {"a", " ", ",", "-"}
\* the addresses: values that are no text, the addresses of the tests, long
\* names, and every short text after a key word or after another word
Direcciones ==
    {NaN, Num(123), Obj}
    \cup {Str(s) : s \in {<<"V","E","R","E","D","A"," ","L","A"," ","P","A","L","M","A",","," ","C","A","S","A"," ","5">>,
                         <<"V","D","A"," ","E","L"," ","C","A","R","M","E","N"," ","-"," ","F","I","N","C","A"," ","L","O","S"," ","N","A","R","A","N","J","O","S">>,
                         <<"C","A","R","R","E","R","A"," ","5"," ","#","1","0","-","1","5">>,
                         <<"C","O","R","R","E","G","I","M","I","E","N","T","O"," ","S","A","N"," ","B","E","R","N","A","R","D","O">>,
                         <<"V","E","R","E","D","A"," ","L","A"," ","P","A","L","M","A"," ","-"," ","A","L","T","A",","," ","C","A","S","A"," ","5">>,
                         <<"V","e","r","e","d","a"," ","A","A","A","A","A","A","A","A","A","A","A","A","A","A","A","A","A","A","A","A","A","A","A","A","A","A","A","A","A","A","A">>,
                         <<"V","e","r","e","d","a"," ","A","A","A","A","A","A","A","A","A","A","A","A","A","A","A","A","A","A","A","A","A","A","A","A","A","A","A","A","A","A","A",","," ","C","A","S","A"," ","5">>}}
    \cup {Str(antes \o palabra \o despues) :
            antes \in {<< >>, <<"C", " ">>},
            palabra \in {palabras_clave[k] : k \in DOMAIN palabras_clave} \cup {<<"C","A","L","L","E">>},
            despues \in TextosHasta(CaracteresDireccion, MaxDireccion)}

InitVereda ==
    /\ en_reposo
    /\ llamada \in {Pendiente("extraer_vereda_de_direccion", <<d>>) : d \in Direcciones}

ExtraerVeredaDeDireccion ==
    /\ llamada.fn = "extraer_vereda_de_direccion"
    /\ ~llamada.hecha
    /\ llamada' = Devuelta(llamada, extraer_vereda_de_direccion(llamada.entrada[1]))
    /\ UNCHANGED proc_vars

SpecVereda == InitVereda /\ [][ExtraerVeredaDeDireccion]_vars

MaxNombre == 4
CaracteresNombre == {"A", "b", "_", "1"}
\* the file names: those of the tests and every short name, alone, after
\* REGISTRO_ and inside a folder
NombresDeArchivo ==
    {<<"C","A","S","A","B","I","A","N","C","A","_","R","E","G","I","S","T","R","O",".","x","l","s","m">>,
     <<"R","E","G","I","S","T","R","O","_","I","B","A","G","U","E","_","A","B","R","I","L",".","x","l","s","m">>,
     <<"a","r","c","h","i","v","o","_","s","i","n","_","p","a","t","r","o","n",".","x","l","s","m">>}
    \cup {antes \o t \o <<".","x","l","s","m">> :
            antes \in {<< >>, s_REGISTRO_, <<"d", "/">>},
            t \in TextosHasta(CaracteresNombre, MaxNombre)}

InitMunicipio ==
    /\ en_reposo
    /\ llamada \in {Pendiente("extraer_nombre_municipio", <<n>>) : n \in NombresDeArchivo}

ExtraerNombreMunicipio ==
    /\ llamada.fn = "extraer_nombre_municipio"
    /\ ~llamada.hecha
    /\ llamada' = Devuelta(llamada, extraer_nombre_municipio(llamada.entrada[1]))
    /\ UNCHANGED proc_vars

SpecMunicipio == InitMunicipio /\ [][ExtraerNombreMunicipio]_vars

CaracteresRuta == {"A", "G", "O", "0", "2", "_"}
\* the folders a file may lie in
Carpetas ==
    {<< >>,
     <<"R","E","G","I","S","T","R","O","S","_","2","0","2","5","/","I","B","A","G","U","E","/">>,
     <<"D","A","T","O","S","/","C","A","S","A","B","I","A","N","C","A","/">>,
     <<"R","E","G","I","S","T","R","O","S","_","2","0","2","5","/">>,
     <<"d","a","t","o","s","/">>,
     <<"R","E","G","I","S","T","R","O","S","_","2","0","2","5","/","I","B","A","G","U","E","/","R","E","G","I","S","T","R","O","S","_","2","0","2","4","/">>}
\* the paths: the names of the tests and every short name, in each folder
Rutas ==
    {carpeta \o nombre \o <<".","x","l","s","m">> :
        carpeta \in Carpetas,
        nombre \in {<<"I","B","A","G","U","E","_","2","0","2","5">>,
                    <<"P","A","I","_","A","B","R","I","L">>,
                    <<"P","A","I">>,
                    <<"p","a","i","_","m","a","y","o">>,
                    <<"P","A","I","_","2","0","2","5","-","0","4">>,
                    <<"P","A","I","_","0","0","-","0","0","-","0","0","0","0">>,
                    <<"R","E","G","I","S","T","R","O","S","_","2","0","2","3">>}
                   \cup TextosHasta(CaracteresRuta, MaxNombre)}

InitRuta ==
    /\ en_reposo
    /\ llamada \in {Pendiente("extraer_info_ruta", <<r>>) : r \in Rutas}

ExtraerInfoRuta ==
    /\ llamada.fn = "extraer_info_ruta"
    /\ ~llamada.hecha
    /\ llamada' = Devuelta(llamada, extraer_info_ruta(llamada.entrada[1]))
    /\ UNCHANGED proc_vars

SpecRuta == InitRuta /\ [][ExtraerInfoRuta]_vars

MaxHojas == 3
\* the names a sheet may have
NombresDeHoja ==
    << <<"R","e","g","i","s","t","r","o"," ","D","i","a","r","i","o">>,
       <<"r","e","g","i","s","t","r","o"," ","d","i","a","r","i","o">>,
       <<"R","E","G","I","S","T","R","O"," ","D","I","A","R","I","O">>,
       <<"D","i","a","r","i","o"," ","r","e","s","u","m","e","n">>,
       <<"R","e","g","i","s","t","r","o","s">>,
       <<"H","o","j","a","1">>,
       <<"R","e","g","i","s","t","r","o"," ","d","e","l"," ","d","i","a","r","i","o">> >>
\* a readable file whose sheets carry the names listed by p, one row each
libro_de(p) ==
    [ruta |-> <<"L","I","B","R","O",".","x","l","s","x">>, legible |-> TRUE,
     hojas |-> [i \in 1..Len(p) |->
                  [nombre |-> NombresDeHoja[p[i]], filas |-> << <<Str(<<"A">>)>> >>]]]
\* the workbooks of one to MaxHojas sheets: no two sheets of a workbook have
\* names that differ in case only
Libros ==
    {libro_de(p) : p \in {q \in UNION {[1..n -> 1..Len(NombresDeHoja)] : n \in 1..MaxHojas} :
                            \A i, j \in 1..Len(q) :
                                i # j => lower(NombresDeHoja[q[i]]) # lower(NombresDeHoja[q[j]])}}

InitHojas ==
    /\ en_reposo
    /\ llamada \in {Pendiente("seleccionar_hoja", <<a>>) : a \in Libros}

\* procesar_archivo, lines 75-93: the choice of the sheet
SeleccionarHoja ==
    /\ llamada.fn = "seleccionar_hoja"
    /\ ~llamada.hecha
    /\ llamada' = Devuelta(llamada, seleccionar_hoja(llamada.entrada[1]))
    /\ UNCHANGED proc_vars

SpecHojas == InitHojas /\ [][SeleccionarHoja]_vars

MaxColumnasDosis == 3
\* a table of two rows: labels with and without a dose term, values with and
\* without a dose kind
tabla_dosis ==
    [cols |-> << Plana(<<"V","a","c","u","n","a">>), Plana(<<"D","o","s","i","s">>), Plana(<<"L","o","t","e">>), Plana(<<"F","i","e","b","r","e"," ","a","m","a","r","i","l","l","a">>), Plana(<<"A","p","l","i","c","a","c","i","o","n">>), Plana(<<"T","i","p","o">>), Plana(<<"T","i","p","o"," ","d","e"," ","D","o","s","i","s">>) >>,
     rows |-> << << Str(<<"N","o","m","b","r","e">>), Str(<<"P","r","i","m","e","r","a"," ","d","o","s","i","s">>), Str(<<"1","2","3">>), Str(<<"P","r","i","m","e","r","a">>), Str(<<"R","E","F","U","E","R","Z","O">>), Str(<<"U^","n","i","c","a">>), NaN >>,
                 << Str(<<"V","a","l","o","r">>), NaN, NaN, Str(<<"S","e","g","u","n","d","a">>), NaN, Num(1), NaN >> >>]
\* a table of one row more than the values identificar_columna_dosis samples:
\* a column that repeats one value before it names a dose kind, one that
\* holds as many different values before it does, and an empty one
tabla_larga ==
    [cols |-> <<Plana(<<"R","e","p","e","t","i","d","a">>), Plana(<<"D","i","s","t","i","n","t","a">>), Plana(<<"V","a","c","i","a">>)>>,
     rows |-> [r \in 1..(MuestraValores + 1) |->
                 IF r <= MuestraValores
                 THEN <<Str(<<"X">>), Num(r), NaN>>
                 ELSE <<Str(<<"P","r","i","m","e","r","a">>), Str(<<"P","r","i","m","e","r","a">>), NaN>>]]
\* the lists of at most MaxColumnasDosis columns of a table, none twice
listas_de_columnas(df) ==
    {[i \in 1..Len(q) |-> df.cols[q[i]]] :
        q \in UNION {{p \in [1..n -> 1..NCols(df)] : \A i, j \in 1..n : i # j => p[i] # p[j]} :
                       n \in 0..MaxColumnasDosis}}

InitDosis ==
    /\ en_reposo
    /\ llamada \in {Pendiente("identificar_columna_dosis", <<tabla_dosis, cv>>) :
                      cv \in listas_de_columnas(tabla_dosis)}
                   \cup {Pendiente("identificar_columna_dosis", <<tabla_larga, cv>>) :
                           cv \in listas_de_columnas(tabla_larga)}

IdentificarColumnaDosis ==
    /\ llamada.fn = "identificar_columna_dosis"
    /\ ~llamada.hecha
    /\ llamada' = Devuelta(llamada,
                           identificar_columna_dosis(llamada.entrada[1], llamada.entrada[2]))
    /\ UNCHANGED proc_vars

SpecDosis == InitDosis /\ [][IdentificarColumnaDosis]_vars

\* ------------------------------------------------------- the properties

\* the tables of the run that have rows, in the order of the files
tablas_no_vacias ==
    LET idx == filtrar_idx(1, Len(traza),
                   [k \in 1..Len(traza) |-> ~empty(traza[k].salida.df)])
    IN  [i \in 1..Len(idx) |-> traza[idx[i]].salida.df]

conjunto_columnas(df) == {df.cols[j] : j \in 1..NCols(df)}

RECURSIVE suma_filas(_)
suma_filas(tablas) ==
    IF tablas = << >> THEN 0 ELSE NRows(Head(tablas)) + suma_filas(Tail(tablas))

\* whether the rows of every table stand in df, table after table, with the
\* values of the table's own columns
filas_en_orden(df, tablas) ==
    /\ NRows(df) = suma_filas(tablas)
    /\ \A i \in 1..Len(tablas) :
         \A r \in 1..NRows(tablas[i]) :
           \A c \in conjunto_columnas(tablas[i]) :
              /\ PosCol(df, c) # 0
              /\ df.rows[suma_filas(SubSeq(tablas, 1, i - 1)) + r][PosCol(df, c)]
                    = tablas[i].rows[r][PosCol(tablas[i], c)]

\* C1: when a run has merged its tables, the columns of the consolidated
\* table are the columns that every contributing table has (stated as the
\* specification words it; pd.concat keeps every column of every table)
C1_InterseccionColumnas ==
    (pc = "fin" /\ "vacunacion" \in resultado.claves) =>
        conjunto_columnas(resultado.vacunacion) =
            {c \in conjunto_columnas(tablas_no_vacias[1]) :
                \A i \in 1..Len(tablas_no_vacias) : c \in conjunto_columnas(tablas_no_vacias[i])}

\* C2: the consolidated table holds the rows of every non-empty per-file
\* table, in the order the files were processed and in each file's own row
\* order; its row count is the sum of the per-file row counts
C2_FilasEnOrden ==
    (pc = "fin" /\ resultado.claves # {}) =>
        /\ "vacunacion" \in resultado.claves =>
              filas_en_orden(resultado.vacunacion, tablas_no_vacias)
        /\ "residencia" \in resultado.claves =>
              filas_en_orden(resultado.residencia, tablas_no_vacias)

\* C2, its case: two files gave rows, more than one each, and both outputs
\* were asked for
C2_DosTablas ==
    /\ pc = "fin"
    /\ resultado.claves = {"vacunacion", "residencia"}
    /\ Len(tablas_no_vacias) = 2
    /\ NRows(tablas_no_vacias[1]) > 1
    /\ NRows(tablas_no_vacias[2]) > 1
    /\ NRows(resultado.vacunacion) = NRows(tablas_no_vacias[1]) + NRows(tablas_no_vacias[2])

Grupos == {g_menor_1, g_1_5, g_6_10, g_11_18, g_19_60, g_mayor_60}

\* C3: a numeric age a falls in exactly the bucket of its interval (a < 1,
\* 1 <= a <= 5, 5 < a <= 10, 10 < a <= 18, 18 < a <= 60, a > 60); a missing
\* value, a value that is no number and a text without digits give
\* 'No especificado'; every value is one of the six buckets or
\* 'No especificado'
C3_GrupoEtario ==
    (llamada.fn = "clasificar_grupo_etario" /\ llamada.hecha) =>
        LET a == llamada.entrada[1]
            g == llamada.salida
        IN  /\ g \in Grupos \cup {g_no_especificado}
            /\ a.k = "num" =>
                 /\ g = g_menor_1 <=> a.n < a.d
                 /\ g = g_1_5 <=> (a.d <= a.n /\ a.n <= 5 * a.d)
                 /\ g = g_6_10 <=> (5 * a.d < a.n /\ a.n <= 10 * a.d)
                 /\ g = g_11_18 <=> (10 * a.d < a.n /\ a.n <= 18 * a.d)
                 /\ g = g_19_60 <=> (18 * a.d < a.n /\ a.n <= 60 * a.d)
                 /\ g = g_mayor_60 <=> 60 * a.d < a.n
            /\ a.k \in {"nan", "obj"} => g = g_no_especificado
            /\ (a.k = "str" /\ \A i \in 1..Len(a.s) : ~EstaEn(a.s[i], Digitos)) =>
                 g = g_no_especificado

\* C3, its case: the age 60, on the inclusive upper bound of its bucket
C3_Sesenta ==
    /\ llamada.fn = "clasificar_grupo_etario"
    /\ llamada.hecha
    /\ llamada.entrada[1] = Num(60)
    /\ llamada.salida = g_19_60

\* the label holds the vaccine name, in any case, and no false-positive term
nombra_sin_excluidos(col, vac) ==
    /\ Contiene(lower(col.l0), lower(strip(vac)))
    /\ ~ContieneAlguno(lower(col.l0), terminos_excluidos)

\* C4: encontrar_columnas_vacuna returns every column whose label holds the
\* vaccine name and no false-positive term, and nothing else (with columns
\* 'Fiebre amarilla' and 'Fiebre amarilla Dosis', both)
C4_TodasLasNombradas ==
    (llamada.fn = "encontrar_columnas_vacuna" /\ llamada.hecha) =>
        \A j \in 1..NCols(llamada.entrada[1]) :
            EnSeq(llamada.entrada[1].cols[j], llamada.salida)
                <=> nombra_sin_excluidos(llamada.entrada[1].cols[j], llamada.entrada[2])

con_dosis(col) == Contiene(lower(col.l0), s_dosis)
cuantas_con_dosis(cols) == Cardinality({i \in 1..Len(cols) : con_dosis(cols[i])})

valores_de(df, nombre, modo) == Columna(df, etiqueta(nombre, modo))
cuantos(valores, v) == Cardinality({r \in 1..Len(valores) : valores[r] = v})

\* a file of one sheet with flat headers in row 1 in which the column named
\* after the vaccine is empty and there are columns 'Dosis' and 'Lote'
vacuna_vacia_y_dosis(archivo, vac) ==
    /\ archivo.legible
    /\ Len(archivo.hojas) = 1
    /\ Len(archivo.hojas[1].filas) > 2
    /\ LET filas == archivo.hojas[1].filas
       IN  /\ \E j \in 1..Len(filas[2]) :
                 /\ filas[2][j].k = "str"
                 /\ strip(lower(filas[2][j].s)) = lower(vac)
                 /\ \A r \in 3..Len(filas) : filas[r][j] = NaN
           /\ EnSeq(Str(<<"D","o","s","i","s">>), filas[2])
           /\ EnSeq(Str(<<"L","o","t","e">>), filas[2])

\* the rows of that file that have a value under 'Dosis'
filas_con_dosis(archivo) ==
    LET filas == archivo.hojas[1].filas
        j == CHOOSE h \in 1..Len(filas[2]) : filas[2][h] = Str(<<"D","o","s","i","s">>)
    IN  Cardinality({r \in 3..Len(filas) : notna(filas[r][j])})

\* C6: for a flat-header file with an empty column named after the vaccine
\* and separate 'Dosis' and 'Lote' columns, the table returned has rows and
\* as many of them have Vacunado true as the file has rows with a dose value
C6_VacunadoPorDosis ==
    \A k \in 1..Len(traza) :
        vacuna_vacia_y_dosis(Archivos[traza[k].archivo], vacuna) =>
            /\ NRows(traza[k].salida.df) > 0
            /\ cuantos(valores_de(traza[k].salida.df, s_Vacunado, FALSE), Bool(TRUE))
                  = filas_con_dosis(Archivos[traza[k].archivo])

palabras_dosis == <<<<"p","r","i","m","e","r","a">>, <<"s","e","g","u","n","d","a">>, <<"r","e","f","u","e","r","z","o">>, <<"u","n","i","c","a">>>>
es_de_dosis(v) == v.k = "str" /\ ContieneAlguno(lower(v.s), palabras_dosis)

\* the table returned for a flat-header file has one vaccine column, it is
\* labelled with the vaccine name, and its values are kinds of dose or empty
una_columna_de_dosis(s, vac) ==
    /\ ~s.modo_jerarquico
    /\ Len(s.columnas_vacuna) = 1
    /\ ~s.columnas_vacuna[1].tuple
    /\ strip(lower(s.columnas_vacuna[1].l0)) = lower(vac)
    /\ NRows(s.df) > 0
    /\ \E r \in 1..NRows(s.df) : notna(Columna(s.df, s.columnas_vacuna[1])[r])
    /\ \A r \in 1..NRows(s.df) :
          LET v == Columna(s.df, s.columnas_vacuna[1])[r]
          IN  notna(v) => es_de_dosis(v)

\* C7: for such a file the vaccine column is the dose column, Vacunado is
\* true exactly on the rows where it has a value, and Es_Primera_Dosis is 1
\* exactly on the rows whose value holds 'primera' in any case
C7_ColumnaDeDosis ==
    \A k \in 1..Len(traza) :
        una_columna_de_dosis(traza[k].salida, vacuna) =>
            LET s == traza[k].salida
                dosis == Columna(s.df, s.columnas_vacuna[1])
            IN  /\ s.col_dosis = Alguna(s.columnas_vacuna[1])
                /\ \A r \in 1..NRows(s.df) :
                     /\ valores_de(s.df, s_Vacunado, FALSE)[r] = Bool(notna(dosis[r]))
                     /\ valores_de(s.df, s_Es_Primera_Dosis, FALSE)[r] =
                           Num(IF dosis[r].k = "str" /\
                                  Contiene(lower(dosis[r].s), <<"p","r","i","m","e","r","a">>)
                               THEN 1 ELSE 0)

\* C7, its case: a file whose vaccine column holds 'Primera', another kind
\* of dose and an empty cell
C7_PrimeraSegundaVacia ==
    \E k \in 1..Len(traza) :
        /\ una_columna_de_dosis(traza[k].salida, vacuna)
        /\ LET s == traza[k].salida
           IN  /\ cuantos(valores_de(s.df, s_Vacunado, FALSE), Bool(TRUE)) = 2
               /\ cuantos(valores_de(s.df, s_Vacunado, FALSE), Bool(FALSE)) = 1
               /\ cuantos(valores_de(s.df, s_Es_Primera_Dosis, FALSE), Num(1)) = 1

\* the span of a vaccine in a header of two rows, as the specification words
\* it: from the leftmost cell of row 0 that holds the name to the next
\* non-empty cell of row 0 or the end of the row (0-based, end exclusive)
celda_nombra(v, vac) == v.k = "str" /\ Contiene(lower(v.s), lower(vac))
tramo_inicio(fila0, vac) ==
    (CHOOSE j \in 1..Len(fila0) :
        celda_nombra(fila0[j], vac) /\ \A h \in 1..(j - 1) : ~celda_nombra(fila0[h], vac)) - 1
tramo_fin(fila0, vac) ==
    IF \E j \in (tramo_inicio(fila0, vac) + 2)..Len(fila0) : notna(fila0[j])
    THEN (CHOOSE j \in (tramo_inicio(fila0, vac) + 2)..Len(fila0) :
             notna(fila0[j]) /\
             \A h \in (tramo_inicio(fila0, vac) + 2)..(j - 1) : ~notna(fila0[h])) - 1
    ELSE Len(fila0)
\* the columns of the span whose row-1 cell is not empty, ascending
tramo_subcolumnas(fila0, fila1, vac) ==
    filtrar_idx(tramo_inicio(fila0, vac), tramo_fin(fila0, vac) - 1,
                [j \in tramo_inicio(fila0, vac)..(tramo_fin(fila0, vac) - 1) |->
                    notna(fila1[j + 1])])
\* their labels in the table loaded with the two rows as header
tramo_columnas(fila0, fila1, vac) ==
    [i \in 1..Len(tramo_subcolumnas(fila0, fila1, vac)) |->
        Tupla(str_valor(fila0[tramo_inicio(fila0, vac) + 1]),
              str_valor(fila1[tramo_subcolumnas(fila0, fila1, vac)[i] + 1]))]

\* a file of one sheet whose row 0 names the vaccine over a second header row
\* that is filled under the whole span
encabezado_de_dos_filas(archivo, vac) ==
    /\ archivo.legible
    /\ Len(archivo.hojas) = 1
    /\ Len(archivo.hojas[1].filas) > 2
    /\ \E j \in 1..Len(archivo.hojas[1].filas[1]) :
          celda_nombra(archivo.hojas[1].filas[1][j], vac)
    /\ Len(tramo_subcolumnas(archivo.hojas[1].filas[1], archivo.hojas[1].filas[2], vac))
          = tramo_fin(archivo.hojas[1].filas[1], vac) - tramo_inicio(archivo.hojas[1].filas[1], vac)

\* C8: for a header of two rows the span starts at the leftmost cell of row 0
\* that holds the name of the processor's vaccine, the sub-columns are the
\* span's columns with a row-1 cell, the vaccine columns resolved are the
\* span's columns, and the dose column is the first of them whose row-1 label
\* holds 'dosis'
C8_TramoDeLaVacuna ==
    \A k \in 1..Len(traza) :
        encabezado_de_dos_filas(Archivos[traza[k].archivo], vacuna) =>
            LET a == Archivos[traza[k].archivo]
                fila0 == a.hojas[1].filas[1]
                fila1 == a.hojas[1].filas[2]
                e == analizar_estructura_excel(a)
                cols == tramo_columnas(fila0, fila1, vacuna)
                sub == tramo_subcolumnas(fila0, fila1, vacuna)
            IN  /\ e.contiene_fiebre_amarilla
                /\ e.columna_fiebre_amarilla = tramo_inicio(fila0, vacuna)
                /\ [i \in 1..Len(e.columnas_fiebre_amarilla) |->
                       e.columnas_fiebre_amarilla[i].indice] = sub
                /\ traza[k].salida.columnas_vacuna = cols
                /\ traza[k].salida.col_dosis =
                      primera_con(cols, [i \in 1..Len(cols) |->
                                            Contiene(lower(cols[i].l1), s_dosis)])

\* the rows analizar_estructura_excel reads from the sheet it inspects
filas_leidas(archivo) ==
    read_excel(archivo, hoja_objetivo(archivo), HeaderNone, FilasAnalisis).df.rows
nombra_en_fila(fila) == \E j \in 1..Len(fila) : celda_nombra(fila[j], s_fiebre_amarilla)

\* C9 as stated: the vaccine is reported found, with a span start, exactly
\* when its name stands in some cell of the rows read from the sheet
C9_EnLasFilasLeidas ==
    (llamada.fn = "analizar_estructura_excel" /\ llamada.hecha) =>
        /\ llamada.salida.contiene_fiebre_amarilla
              <=> \E r \in 1..Len(filas_leidas(llamada.entrada[1])) :
                     nombra_en_fila(filas_leidas(llamada.entrada[1])[r])
        /\ llamada.salida.contiene_fiebre_amarilla
              <=> llamada.salida.columna_fiebre_amarilla >= 0

\* C9, amended: of the rows read only row 0 is searched, and only when a
\* second row was read: the vaccine is reported found exactly when at least
\* two rows were read and a cell of row 0 holds its name; the span start is
\* then the leftmost such cell, and otherwise there is no span start and no
\* column
C9_EnLaPrimeraFila ==
    (llamada.fn = "analizar_estructura_excel" /\ llamada.hecha) =>
        LET filas == filas_leidas(llamada.entrada[1])
            e == llamada.salida
        IN  /\ e.contiene_fiebre_amarilla <=> (Len(filas) >= 2 /\ nombra_en_fila(filas[1]))
            /\ e.contiene_fiebre_amarilla =>
                  /\ e.fila_fiebre_amarilla = 0
                  /\ e.columna_fiebre_amarilla = tramo_inicio(filas[1], s_fiebre_amarilla)
            /\ ~e.contiene_fiebre_amarilla =>
                  /\ e.columna_fiebre_amarilla < 0
                  /\ e.columnas_fiebre_amarilla = << >>

\* C9, its case: the name stands in the second of the rows read and not in
\* the first, and the vaccine is reported not found
C9_SoloEnLaSegundaFila ==
    /\ llamada.fn = "analizar_estructura_excel"
    /\ llamada.hecha
    /\ Len(filas_leidas(llamada.entrada[1])) >= 2
    /\ ~nombra_en_fila(filas_leidas(llamada.entrada[1])[1])
    /\ nombra_en_fila(filas_leidas(llamada.entrada[1])[2])
    /\ ~llamada.salida.contiene_fiebre_amarilla

\* the step of a file in which no strategy found a vaccine column
sin_estrategia(k) == traza[k].salida.estrategia = "ninguna"
otras_tablas ==
    LET idx == filtrar_idx(1, Len(traza),
                   [k \in 1..Len(traza) |-> ~sin_estrategia(k) /\ ~empty(traza[k].salida.df)])
    IN  [i \in 1..Len(idx) |-> traza[idx[i]].salida.df]

\* C10: when no strategy finds a vaccine column in a file, its step returns
\* a table without rows, appends one warning, for that file, and leaves
\* archivos_procesados and registros_totales as they were; the run still
\* returns the rows of the other files
C10_SinColumnas ==
    /\ [][(pc = "procesando" /\ Len(traza') = Len(traza) + 1
             /\ traza'[Len(traza')].salida.estrategia = "ninguna") =>
            /\ NRows(traza'[Len(traza')].salida.df) = 0
            /\ advertencias' = Append(advertencias,
                                  [tipo |-> "sin_columnas",
                                   archivo |-> Archivos[archivos[Len(traza) + 1]].ruta])
            /\ archivos_procesados' = archivos_procesados
            /\ registros_totales' = registros_totales
            /\ dfs' = dfs]_vars
    /\ []((pc = "fin" /\ otras_tablas # << >>) =>
            /\ resultado.claves # {}
            /\ "vacunacion" \in resultado.claves =>
                  filas_en_orden(resultado.vacunacion, otras_tablas)
            /\ "residencia" \in resultado.claves =>
                  filas_en_orden(resultado.residencia, otras_tablas))

\* C10, its case: a run of two files, one without vaccine columns and one
\* with rows, that ended with one warning and the rows of the other file
C10_UnoSinColumnas ==
    /\ pc = "fin"
    /\ Len(traza) = 2
    /\ \E k \in 1..2 : sin_estrategia(k)
    /\ Len(otras_tablas) = 1
    /\ Len(advertencias) = 1
    /\ advertencias[1].tipo = "sin_columnas"
    /\ archivos_procesados = 1
    /\ NRows(resultado.vacunacion) = NRows(otras_tablas[1])
    /\ "vacunacion" \in resultado.claves


\* the steps of the run whose file could not be read
ilegibles == {k \in 1..Len(traza) : ~Archivos[traza[k].archivo].legible}
\* the steps of the run that returned rows
con_filas == {k \in 1..Len(traza) : ~empty(traza[k].salida.df)}

\* C11: no call of procesar_archivo ends the run: a file that is waiting is
\* always processed; the call on a file that cannot be read returns a table
\* without rows and appends one warning, naming the file and the error, and
\* counts nothing; the run goes through every file listed and returns an empty
\* result exactly when no file returned rows
C11_ErrorPorArchivo ==
    /\ [][(pc = "procesando" /\ Len(traza') = Len(traza) + 1
             /\ ~Archivos[archivos[Len(traza) + 1]].legible) =>
            /\ empty(traza'[Len(traza')].salida.df)
            /\ advertencias' = Append(advertencias,
                                  [tipo |-> "error",
                                   archivo |-> Archivos[archivos[Len(traza) + 1]].ruta])
            /\ archivos_procesados' = archivos_procesados
            /\ registros_totales' = registros_totales
            /\ dfs' = dfs]_vars
    /\ []((pc = "procesando" /\ Len(traza) < Len(archivos)) => ENABLED ProcesarArchivo)
    /\ []((pc = "fin" /\ archivos # << >>) =>
            /\ Len(traza) = Len(archivos)
            /\ \A k \in 1..Len(traza) : traza[k].archivo = archivos[k]
            /\ (resultado.claves = {}) <=> (con_filas = {}))

\* C11, its case: a run of two files, the first one unreadable, that ended
\* with the warning of the first and the rows of the second
C11_IlegibleYOtro ==
    /\ pc = "fin"
    /\ Len(traza) = 2
    /\ ilegibles = {1}
    /\ con_filas = {2}
    /\ Len(advertencias) = 1
    /\ advertencias[1].tipo = "error"
    /\ resultado.claves # {}
    /\ archivos_procesados = 1

\* the place of the separator nearest to the start of a text, one past its
\* end when it has none
primer_separador(t) ==
    IF \E i \in 1..Len(t) : EstaEn(t[i], separadores)
    THEN CHOOSE i \in 1..Len(t) :
            /\ EstaEn(t[i], separadores)
            /\ \A j \in 1..(i - 1) : ~EstaEn(t[j], separadores)
    ELSE Len(t) + 1
\* the text up to the nearest separator or up to 30 characters, whichever
\* comes first, trimmed
hasta_el_mas_cercano(t) == strip(SubSeq(t, 1, Min(primer_separador(t) - 1, MaxVereda)))
\* the trimmed text that follows the key word k where it stands at place i
tras_la_palabra(d, k, i) == strip(SubSeq(d, i + Len(palabras_clave[k]), Len(d)))
sin_separador(t) == \A i \in 1..Len(t) : ~EstaEn(t[i], separadores)

\* C12: extraer_vereda_de_direccion returns None for a value that is no text
\* and for an address without key word; otherwise the trimmed text after the
\* key word, up to the nearest separator among , . - ; ( or up to 30
\* characters, whichever comes first: a result holds no separator and has at
\* most 30 characters
C12_HastaElSeparador ==
    (llamada.fn = "extraer_vereda_de_direccion" /\ llamada.hecha) =>
        LET d == llamada.entrada[1]
            r == llamada.salida
        IN  IF d.k # "str" \/ ~ContieneAlguno(upper(d.s), palabras_clave)
            THEN r = NaN
            ELSE /\ r.k = "str" => (sin_separador(r.s) /\ Len(r.s) <= MaxVereda)
                 /\ \E k \in DOMAIN palabras_clave : \E i \in 1..Len(d.s) :
                       /\ i + Len(palabras_clave[k]) - 1 <= Len(d.s)
                       /\ SubSeq(upper(d.s), i, i + Len(palabras_clave[k]) - 1) = palabras_clave[k]
                       /\ IF hasta_el_mas_cercano(tras_la_palabra(upper(d.s), k, i)) = << >>
                          THEN r \in {NaN, Str(<< >>)}
                          ELSE r = Str(hasta_el_mas_cercano(tras_la_palabra(upper(d.s), k, i)))

\* the token after REGISTRO_ of a name of the form REGISTRO_<letters>_...
tras_registro(n) ==
    IF empieza_por(n, s_REGISTRO_)
    THEN match_letras_(SubSeq(n, Len(s_REGISTRO_) + 1, Len(n)))
    ELSE << >>

\* C13: extraer_nombre_municipio returns in upper case the token after
\* REGISTRO_ for a name REGISTRO_<letters>_..., the leading token for another
\* name <letters>_..., and the name without its extension for any other
C13_TokenDelMunicipio ==
    (llamada.fn = "extraer_nombre_municipio" /\ llamada.hecha) =>
        LET n == basename(llamada.entrada[1])
        IN  llamada.salida =
              IF tras_registro(n) # << >> THEN upper(tras_registro(n))
              ELSE IF match_letras_(n) # << >> THEN upper(match_letras_(n))
              ELSE upper(splitext_0(n))

\* the keys of the dictionary that are words (names and abbreviations of
\* months) and those that are numbers
claves_palabra == {k \in DOMAIN meses_claves : ~isdigit(meses_claves[k])}
claves_numero == {k \in DOMAIN meses_claves : isdigit(meses_claves[k])}
\* the characters i..j of a text are a whole number token: digits, with no
\* digit before or after
es_token_numerico(s, i, j) ==
    /\ isdigit(SubSeq(s, i, j))
    /\ i = 1 \/ ~EstaEn(s[i - 1], Digitos)
    /\ j = Len(s) \/ ~EstaEn(s[j + 1], Digitos)
\* the name holds a month name, a month abbreviation or a month number token
indica_mes(nombre) ==
    \/ \E k \in claves_palabra : Contiene(nombre, meses_claves[k])
    \/ \E k \in claves_numero : \E i \in 1..Len(nombre) : \E j \in i..Len(nombre) :
          es_token_numerico(nombre, i, j) /\ SubSeq(nombre, i, j) = meses_claves[k]

\* C14: extraer_info_ruta returns for every path a
\* dictionary of values that are None or text; mes is None when the file
\* name holds no month name, no month abbreviation and no month number token
\* (a name made of a municipality and a year of four digits gives None), and
\* a name that holds a month name gives the two digits of a month it names
C14_SinMesNinguno ==
    /\ (llamada.fn = "extraer_info_ruta" /\ ~llamada.hecha) =>
          Con(extraer_info_ruta(llamada.entrada[1]), LAMBDA r :
              \A campo \in {"municipio", "anio", "mes"} : r[campo].k \in {"nan", "str"})
    /\ (llamada.fn = "extraer_info_ruta" /\ llamada.hecha) =>
          LET nombre == upper(splitext_0(basename(llamada.entrada[1])))
              mes == llamada.salida.mes
          IN  /\ ~indica_mes(nombre) => mes = NaN
              /\ (\E k \in claves_palabra : Contiene(nombre, meses_claves[k])) =>
                    \E k \in claves_palabra :
                        Contiene(nombre, meses_claves[k]) /\ mes = Str(meses_valores[k])

\* a table holds the column `nombre`, flat, with the value v on every row
columna_constante(df, nombre, v) ==
    /\ PosCol(df, Plana(nombre)) # 0
    /\ \A r \in 1..NRows(df) : Columna(df, Plana(nombre))[r] = v

\* C15: every table with rows that procesar_archivo returned, from a flat or
\* from a two-row header, holds the columns Municipio_Vacunacion, Año_Registro
\* and Mes_Registro, and on every row they hold the municipality, the year and
\* the month that extraer_info_ruta gives for the path of the file
C15_LugarYPeriodo ==
    \A k \in 1..Len(traza) :
        ~empty(traza[k].salida.df) =>
            Con(extraer_info_ruta(Archivos[traza[k].archivo].ruta), LAMBDA info :
                /\ columna_constante(traza[k].salida.df, s_Municipio_Vacunacion, info.municipio)
                /\ columna_constante(traza[k].salida.df, s_Anio_Registro, info.anio)
                /\ columna_constante(traza[k].salida.df, s_Mes_Registro, info.mes))

etiquetas_planas(df) == \A j \in 1..NCols(df) : ~df.cols[j].tuple

\* C16: every column label of a table that procesar_archivo returned, and of
\* the tables of the consolidated result, is a flat text, never a tuple of
\* header levels, also for a file loaded with a two-row header
C16_EtiquetasPlanas ==
    /\ \A k \in 1..Len(traza) : etiquetas_planas(traza[k].salida.df)
    /\ etiquetas_planas(resultado.vacunacion)
    /\ etiquetas_planas(resultado.residencia)

\* the first sheet of a list whose name passes a test, 0 when none does
primera_hoja(nombres, P(_)) ==
    IF \E i \in 1..Len(nombres) : P(nombres[i])
    THEN CHOOSE i \in 1..Len(nombres) : P(nombres[i]) /\ \A h \in 1..(i - 1) : ~P(nombres[h])
    ELSE 0
es_la_etiqueta(nombre) == lower(nombre) = lower(s_Registro_Diario)
con_los_dos_fragmentos(nombre) ==
    Contiene(lower(nombre), s_regist) /\ Contiene(lower(nombre), s_diario)

\* C17: the sheet chosen for a file is the one whose name is 'Registro
\* Diario' but for the case of its letters, if there is one; else the first
\* sheet whose name holds both 'regist' and 'diario'; else the first sheet
C17_HojaElegida ==
    (llamada.fn = "seleccionar_hoja" /\ llamada.hecha) =>
        LET nombres == nombres_hojas(llamada.entrada[1])
        IN  llamada.salida =
              IF primera_hoja(nombres, es_la_etiqueta) # 0
              THEN primera_hoja(nombres, es_la_etiqueta)
              ELSE IF primera_hoja(nombres, con_los_dos_fragmentos) # 0
              THEN primera_hoja(nombres, con_los_dos_fragmentos)
              ELSE 1

\* the value of row r is one of the first n values of a column that are not
\* null, counted each time it occurs
entre_los_primeros(c, r, n) ==
    notna(c[r]) /\ Cardinality({h \in 1..(r - 1) : notna(c[h])}) < n
\* the value of row r is one of the first n different values of a column that
\* are not null, compared as texts
entre_los_primeros_distintos(c, r, n) ==
    /\ notna(c[r])
    /\ Cardinality({str_valor(c[h]) : h \in {g \in 1..(r - 1) : notna(c[g])}}
                     \ {str_valor(c[r])}) < n
nombra_tipo_de_dosis(v) == ContieneAlguno(lower(str_valor(v)), terminos_contenido_dosis)
etiqueta_de_dosis(col) == Contiene(lower(str_col(col)), s_dosis)
\* the first member of a list that passes a test, None when none does
primera_columna(cv, P(_)) ==
    IF \E i \in 1..Len(cv) : P(cv[i])
    THEN Alguna(cv[CHOOSE i \in 1..Len(cv) : P(cv[i]) /\ \A h \in 1..(i - 1) : ~P(cv[h])])
    ELSE Ninguna

\* C18 as stated: the first column of the list whose label holds 'dosis';
\* else the first column one of whose first 30 non-null values names a kind
\* of dose; else None
C18_PrimerosTreinta ==
    (llamada.fn = "identificar_columna_dosis" /\ llamada.hecha) =>
        LET df == llamada.entrada[1]
            cv == llamada.entrada[2]
            por_valor(col) ==
                \E r \in 1..NRows(df) :
                    /\ entre_los_primeros(Columna(df, col), r, MuestraValores)
                    /\ nombra_tipo_de_dosis(Columna(df, col)[r])
        IN  llamada.salida =
              IF primera_columna(cv, etiqueta_de_dosis).ok
              THEN primera_columna(cv, etiqueta_de_dosis)
              ELSE primera_columna(cv, por_valor)

\* C18: identificar_columna_dosis returns the first column of the list whose
\* label holds 'dosis'; else the first column one of whose first 30 different
\* non-null values names a kind of dose (primera, segunda, refuerzo, unica);
\* else None.  A label wins over the values of an earlier column, and the
\* result is None or a member of the list
C18_PrimerosTreintaDistintos ==
    (llamada.fn = "identificar_columna_dosis" /\ llamada.hecha) =>
        LET df == llamada.entrada[1]
            cv == llamada.entrada[2]
            por_valor(col) ==
                \E r \in 1..NRows(df) :
                    /\ entre_los_primeros_distintos(Columna(df, col), r, MuestraValores)
                    /\ nombra_tipo_de_dosis(Columna(df, col)[r])
        IN  /\ llamada.salida =
                 IF primera_columna(cv, etiqueta_de_dosis).ok
                 THEN primera_columna(cv, etiqueta_de_dosis)
                 ELSE primera_columna(cv, por_valor)
            /\ llamada.salida.ok => EnSeq(llamada.salida.col, cv)

\* C18, its case: no label of the list holds 'dosis', and the column returned
\* names a kind of dose only after 30 values that are not null, all of them
\* the same
C18_TrasTreintaRepetidos ==
    /\ llamada.fn = "identificar_columna_dosis"
    /\ llamada.hecha
    /\ ~primera_columna(llamada.entrada[2], etiqueta_de_dosis).ok
    /\ llamada.salida.ok
    /\ \A r \in 1..NRows(llamada.entrada[1]) :
          nombra_tipo_de_dosis(Columna(llamada.entrada[1], llamada.salida.col)[r]) =>
              ~entre_los_primeros(Columna(llamada.entrada[1], llamada.salida.col), r,
                                  MuestraValores)

\* the value of a row of the table of step k under a label
valor_en(k, col, r) == Columna(traza[k].salida.df, col)[r]
\* the value of Vacunado on a row of the table of step k
vacunado_en(k, r) ==
    valor_en(k, etiqueta(s_Vacunado, traza[k].salida.modo_jerarquico), r) = Bool(TRUE)
con_valor_de_dosis(v) == v.k # "nan" /\ ~(v.k = "str" /\ v.s = s_fin)

\* C19: on every row of a table that procesar_archivo returned, Vacunado is a
\* truth value; with a dose column resolved it is true exactly when the dose
\* value of the row is neither null nor 'fin'; with none resolved it is true
\* exactly when one of the resolved vaccine columns is not null on the row
C19_VacunadoPorFila ==
    \A k \in 1..Len(traza) : \A r \in 1..NRows(traza[k].salida.df) :
        /\ valor_en(k, etiqueta(s_Vacunado, traza[k].salida.modo_jerarquico), r).k = "bool"
        /\ IF traza[k].salida.col_dosis.ok
           THEN vacunado_en(k, r) <=>
                    con_valor_de_dosis(valor_en(k, traza[k].salida.col_dosis.col, r))
           ELSE vacunado_en(k, r) <=>
                    \E i \in 1..Len(traza[k].salida.columnas_vacuna) :
                        valor_en(k, traza[k].salida.columnas_vacuna[i], r).k # "nan"

\* C19, its case: a table with a dose column resolved in which a row without
\* dose value is not vaccinated although one of its vaccine columns is not
\* null, and another row is vaccinated
C19_SinDosisNoVacunado ==
    \E k \in 1..Len(traza) : \E r, q \in 1..NRows(traza[k].salida.df) :
        /\ traza[k].salida.col_dosis.ok
        /\ ~vacunado_en(k, r)
        /\ \E i \in 1..Len(traza[k].salida.columnas_vacuna) :
              valor_en(k, traza[k].salida.columnas_vacuna[i], r).k # "nan"
        /\ vacunado_en(k, q)

s_atenci == <<"a","t","e","n","c","i">>
\* a label that names the date of attention
es_fecha_de_atencion(col) ==
    /\ Contiene(lower(col.l0 \o col.l1), s_fecha)
    /\ Contiene(lower(col.l0 \o col.l1), s_atenci)
\* the rows of a table whose value under a label is neither null nor 'fin'
filas_con_fecha(df, col) ==
    filtrar_idx(1, NRows(df),
        [r \in 1..NRows(df) |-> notna(Columna(df, col)[r]) /\ ~es_fin(Columna(df, col)[r])])
\* the table `df` holds, in this order, the rows `idx` of the table `origen`,
\* on every column of `origen` that it kept
son_las_filas(df, origen, idx) ==
    /\ NRows(df) = Len(idx)
    /\ \A i \in 1..Len(idx) : \A j \in 1..NCols(df) :
          PosCol(origen, df.cols[j]) # 0 =>
              df.rows[i][j] = origen.rows[idx[i]][PosCol(origen, df.cols[j])]

\* C20: when the loaded table of a file has a date-of-attention column and its
\* vaccine columns were found, the table that procesar_archivo returns holds
\* exactly the loaded rows whose date of attention is neither null nor 'fin',
\* in their order
C20_FilasConFechaDeAtencion ==
    \A k \in 1..Len(traza) : \A j \in 1..NCols(traza[k].salida.df_origen) :
        (/\ traza[k].salida.columnas_vacuna # << >>
         /\ es_fecha_de_atencion(traza[k].salida.df_origen.cols[j]))
        => son_las_filas(traza[k].salida.df, traza[k].salida.df_origen,
                         filas_con_fecha(traza[k].salida.df_origen,
                                         traza[k].salida.df_origen.cols[j]))

\* what a parse without a format reads: the texts month/day/year, with the
\* day first when the first number is no month, and the texts year-month-day
parse_generico(v) ==
    IF v.k = "fecha" THEN v
    ELSE IF v.k # "str" THEN NaN
    ELSE LET p == split(v.s, "/")
             q == split(v.s, "-")
         IN  IF Len(p) = 3 /\ dos_digitos_a_lo_mas(p[1]) /\ dos_digitos_a_lo_mas(p[2])
                /\ isdigit(p[3]) /\ Len(p[3]) = 2
             THEN IF valor_digitos(p[1]) <= 12
                  THEN dia_valido(siglo(valor_digitos(p[3])), valor_digitos(p[1]), valor_digitos(p[2]))
                  ELSE dia_valido(siglo(valor_digitos(p[3])), valor_digitos(p[2]), valor_digitos(p[1]))
             ELSE IF Len(q) = 3 /\ isdigit(q[1]) /\ Len(q[1]) = 4
                     /\ dos_digitos_a_lo_mas(q[2]) /\ dos_digitos_a_lo_mas(q[3])
             THEN dia_valido(valor_digitos(q[1]), valor_digitos(q[2]), valor_digitos(q[3]))
             ELSE NaN

\* the value of the date column that step k converted, on a row of its table
fecha_de_origen(k, r) == valor_en(k, traza[k].salida.fecha_col.col, r)
\* the value of Fecha on a row of the table of step k
fecha_en(k, r) == valor_en(k, etiqueta(s_Fecha, traza[k].salida.modo_jerarquico), r)

\* C21: on every row of a table returned for a file with a date column, Fecha
\* is a date when the format month/day/year or else the parse without a format
\* reads the date value of the row, and it is null only when neither reads it
C21_FechaLeidaDeAlgunModo ==
    \A k \in 1..Len(traza) : \A r \in 1..NRows(traza[k].salida.df) :
        traza[k].salida.fecha_col.ok =>
            (notna(fecha_en(k, r)) <=> notna(parse_generico(fecha_de_origen(k, r))))

\* ------------------------------------------------------------------ C22
\* the header rows of the analysed sheet could not be read: the file does not
\* open, it has no sheet, the sheet does not load, or it has fewer than two rows
encabezados_ilegibles(archivo) ==
    \/ ~archivo.legible
    \/ hoja_objetivo(archivo) = 0
    \/ ~read_excel(archivo, hoja_objetivo(archivo), HeaderNone, FilasAnalisis).ok
    \/ Len(read_excel(archivo, hoja_objetivo(archivo), HeaderNone, FilasAnalisis).df.rows) < 2

\* C22: when the file, the sheet or its header rows cannot be read (a sheet
\* with fewer than two rows included), analizar_estructura_excel returns a
\* structure whose fields are all empty or absent: no sheet list, no header
\* maps, vaccine not found, no columns.
C22_EstructuraVaciaSiFalla ==
    (llamada.fn = "analizar_estructura_excel" /\ llamada.hecha
        /\ encabezados_ilegibles(llamada.entrada[1]))
    => llamada.salida = estructura_inicial

\* ------------------------------------------------------------------ C23
\* the text t occurs in the name of the column, in either part of a tuple label
nombre_contiene(col, t) == Contiene(col.l0, t) \/ (col.tuple /\ Contiene(col.l1, t))

de_residencia(col) ==
    \/ nombre_contiene(col, s_Residencia)
    \/ nombre_contiene(col, s_Departamento_)
    \/ nombre_contiene(col, s_Municipio_)

\* the position of a label in a list of distinct labels
posicion(cols, col) == CHOOSE i \in 1..Len(cols) : cols[i] = col

\* C23: the 'residencia' output has exactly the columns of the merged table,
\* none dropped and none duplicated, every column whose name contains
\* 'Residencia', 'Departamento_' or 'Municipio_' comes before all the others,
\* and the order inside each of the two groups is that of the merged table.
C23_ResidenciaPrimero ==
    (pc = "fin" /\ "residencia" \in resultado.claves) =>
        LET cols == resultado.residencia.cols
            orig == concat(dfs).cols
        IN  /\ Len(cols) = Len(orig)
            /\ {cols[i] : i \in 1..Len(cols)} = {orig[i] : i \in 1..Len(orig)}
            /\ \A i, j \in 1..Len(cols) : i < j => cols[i] # cols[j]
            /\ \A i, j \in 1..Len(cols) :
                  (i < j /\ de_residencia(cols[j])) => de_residencia(cols[i])
            /\ \A i, j \in 1..Len(cols) :
                  (i < j /\ (de_residencia(cols[i]) <=> de_residencia(cols[j])))
                      => posicion(orig, cols[i]) < posicion(orig, cols[j])

\* ------------------------------------------------------------------ C24
\* the columns that say where and when the vaccination was recorded
de_lugar_y_fecha(col) ==
    col.l0 \in {s_Municipio_Vacunacion, s_Anio_Registro, s_Mes_Registro, s_Fecha}
        /\ (col.tuple => col.l1 = << >>)

\* C24: in the 'vacunacion' output the columns Municipio_Vacunacion,
\* Año_Registro, Mes_Registro and Fecha come before all other columns.
C24_LugarYFechaPrimero ==
    (pc = "fin" /\ "vacunacion" \in resultado.claves) =>
        LET cols == resultado.vacunacion.cols
        IN  \A i, j \in 1..Len(cols) :
                (i < j /\ de_lugar_y_fecha(cols[j])) => de_lugar_y_fecha(cols[i])

\* ------------------------------------------------------------------ C25
\* C25: for every list of sheet names, the sheet whose header rows
\* analizar_estructura_excel inspects is the sheet procesar_archivo loads.
C25_MismaHoja ==
    (llamada.fn = "seleccionar_hoja" /\ llamada.hecha)
        => llamada.salida = hoja_objetivo(llamada.entrada[1])

\* ------------------------------------------------------------------ C26
\* the leftmost column of the loaded sheet that was selected into the table
\* `df` and whose flat label satisfies P
primera_del_origen(origen, df, P(_)) ==
    primera_con(origen.cols,
        [j \in 1..NCols(origen) |-> PosCol(df, origen.cols[j]) # 0 /\ P(origen.cols[j])])

nombra_fecha(col) == Contiene(lower(str_col(col)), s_fecha)
nombra_edad(col) ==
    Contiene(lower(str_col(col)), s_anio) \/ Contiene(lower(str_col(col)), s_edad)

\* C26: for a flat-header file, the column used for the row filter and Fecha
\* is the leftmost selected column of the source sheet whose label contains
\* 'fecha', and the column used for Grupo_Etario is the leftmost selected
\* column of the source sheet whose label contains 'año' or 'edad'.
C26_ColumnaMasALaIzquierda ==
    \A k \in 1..Len(traza) :
        LET s == traza[k].salida
        IN  (~s.modo_jerarquico /\ NRows(s.df) > 0) =>
                /\ primera_del_origen(s.df_origen, s.df, nombra_fecha).ok
                       => s.fecha_col = primera_del_origen(s.df_origen, s.df, nombra_fecha)
                /\ primera_del_origen(s.df_origen, s.df, nombra_edad).ok
                       => s.col_edad = primera_del_origen(s.df_origen, s.df, nombra_edad)

\* ------------------------------------------------------------------ C27
\* the loaded sheet has a column whose label holds 'años' or 'edad'
tiene_columna_de_edad(origen) ==
    \E j \in 1..NCols(origen) :
        \/ Contiene(lower(origen.cols[j].l0 \o <<" ">> \o origen.cols[j].l1), s_anios)
        \/ Contiene(lower(origen.cols[j].l0 \o <<" ">> \o origen.cols[j].l1), s_edad)

\* C27: when the source file has no column whose label contains 'años' or
\* 'edad', Grupo_Etario is 'No especificado' on every row of the table that
\* procesar_archivo returns, whatever year and month the path gave.
C27_SinEdadNoEspecificado ==
    \A k \in 1..Len(traza) :
        ~tiene_columna_de_edad(traza[k].salida.df_origen) =>
            \A r \in 1..NRows(traza[k].salida.df) :
                valor_en(k, etiqueta(s_Grupo_Etario, traza[k].salida.modo_jerarquico), r)
                    = Str(g_no_especificado)

\* ------------------------------------------------------------------ C28
\* the steps of the run whose call returned a table with rows
con_aporte == {k \in 1..Len(traza) : ~empty(traza[k].salida.df)}

\* the consolidated table of a result that is not empty
consolidado ==
    IF "vacunacion" \in resultado.claves THEN resultado.vacunacion ELSE resultado.residencia

\* C28: after consolidar_archivos returned a result that is not empty,
\* registros_totales is the number of rows of the consolidated table and
\* archivos_procesados the number of files that contributed at least one row;
\* a file whose call returned an empty table changed neither counter.
C28_ContadoresDelConsolidado ==
    (pc = "fin" /\ resultado.claves # {}) =>
        /\ registros_totales = NRows(consolidado)
        /\ archivos_procesados = Cardinality(con_aporte)
        /\ \A k \in 1..Len(traza) :
              empty(traza[k].salida.df) =>
                  ~traza[k].salida.contado /\ traza[k].salida.registros = 0

\* C28, its case: a run of two files that ended with the rows of one of them,
\* the call on the other having returned an empty table
C28_UnoAportaYOtroNo ==
    /\ pc = "fin" /\ resultado.claves # {}
    /\ Len(traza) = 2
    /\ Cardinality(con_aporte) = 1
    /\ archivos_procesados = 1
    /\ registros_totales > 0

\* ------------------------------------------------------------------ C29
\* the warnings of the run that name the file of step k
advertencias_de(k) ==
    {i \in 1..Len(advertencias) :
        /\ advertencias[i].tipo \in {"sin_columnas", "error"}
        /\ advertencias[i].archivo = Archivos[traza[k].archivo].ruta}

\* C29: after consolidar_archivos processed its file list, every file either
\* contributed at least one row or has exactly one warning, and no file has
\* more than one: archivos_procesados plus the number of per-file warnings is
\* the number of files.
C29_AporteOAdvertencia ==
    (pc = "fin" /\ archivos # << >>) =>
        /\ \A k \in 1..Len(traza) :
              IF ~empty(traza[k].salida.df)
              THEN advertencias_de(k) = {}
              ELSE Cardinality(advertencias_de(k)) = 1
        /\ archivos_procesados + Len(advertencias) = Len(archivos)

\* ------------------------------------------------------------------ C30
RECURSIVE registros_hasta(_)
\* the rows counted by the first k calls of the run
registros_hasta(k) ==
    IF k = 0 THEN 0 ELSE registros_hasta(k - 1) + traza[k].salida.registros

RECURSIVE advertencias_hasta(_)
\* the warnings appended by the first k calls of the run
advertencias_hasta(k) ==
    IF k = 0 THEN << >> ELSE advertencias_hasta(k - 1) \o traza[k].salida.advertencias

\* C30: each call of consolidar_archivos resets archivos_procesados,
\* registros_totales and advertencias before it processes a file: once a run
\* has begun, whatever runs came before it on the same processor, the three
\* hold what the calls of this run counted and appended and nothing else, the
\* single warning of a run that found no file included.
C30_SoloLaUltimaCorrida ==
    pc # "listo" =>
        /\ archivos_procesados = Cardinality({k \in 1..Len(traza) : traza[k].salida.contado})
        /\ registros_totales = registros_hasta(Len(traza))
        /\ advertencias = IF archivos = << >>
                          THEN <<[tipo |-> "sin_archivos", archivo |-> << >>]>>
                          ELSE advertencias_hasta(Len(traza))

\* C30, its case: a run that found no file, on a processor whose earlier run
\* had left counters or warnings, ended with the counters at zero and its own
\* warning only
C30_SinArchivosTrasOtraCorrida ==
    /\ con_restos
    /\ pc = "fin"
    /\ archivos = << >>
    /\ archivos_procesados = 0 /\ registros_totales = 0
    /\ Len(advertencias) = 1

====
